---- MODULE Spec2Model ----
(***************************************************************************)
(* State-machine model of online_scraper.py: the SheetsManager             *)
(* (setup, load_tags, load_existing, safe_update, log_online_status,       *)
(* apply_formulas, write_profile, update_dashboard), main(), and the       *)
(* module-level functions clean_data and convert_date.                     *)
(*                                                                         *)
(* A text value is a sequence of one-character strings, so that strip()    *)
(* and lower() are computed and not assumed.  An opaque token (a URL, a    *)
(* timestamp, a header label) is a one-element sequence holding the token. *)
(* A Python list index k is the model's index k + 1.                       *)
(***************************************************************************)
EXTENDS Integers, Sequences, FiniteSets, TLC

\* ------------------------------------------------------------------ bounds
\* Longest list of online nicknames the discovery step hands to main().
MaxTargets == 2
\* Most faults of one run: safe_update calls in which the store refuses an
\* attempt, remote reads that raise, interrupts.
MaxFaults == 1

\* ------------------------------------------------------- program constants
\* safe_update(self, func, *args, retries=3, **kwargs)
Retries == 3
\* wait = (attempt + 1) * 5
BackoffUnit == 5
\* for attempt in range(2)
ScrapeAttempts == 2

COLUMN_ORDER ==
  << "IMAGE", "NICK NAME", "TAGS", "LAST POST", "LAST POST TIME", "FRIEND",
     "CITY", "GENDER", "MARRIED", "AGE", "JOINED", "FOLLOWERS", "STATUS",
     "POSTS", "PROFILE LINK", "INTRO", "SOURCE", "DATETIME SCRAP" >>

Columns == { COLUMN_ORDER[k] : k \in 1..Len(COLUMN_ORDER) }

\* COLUMN_MAP = {name: idx for idx, name in enumerate(COLUMN_ORDER)}  (0-based)
COLUMN_MAP(name) == (CHOOSE k \in 1..Len(COLUMN_ORDER) : COLUMN_ORDER[k] = name) - 1

\* --------------------------------------------------------------- small maps
\* a Python dict, as a function on the set of its keys
EmptyMap == << >>

Put(map, key, value) ==
  [x \in (DOMAIN map) \cup {key} |-> IF x = key THEN value ELSE map[x]]

\* --------------------------------------------------------------- text values
EmptyText == << >>

IsSpace(c) == c = " "

UpperChars == << "A","B","C","D","E","F","G","H","I","J","K","L","M",
                 "N","O","P","Q","R","S","T","U","V","W","X","Y","Z" >>
LowerChars == << "a","b","c","d","e","f","g","h","i","j","k","l","m",
                 "n","o","p","q","r","s","t","u","v","w","x","y","z" >>

\* str.lower() on one character
LowerChar(c) ==
  IF \E k \in 1..Len(UpperChars) : UpperChars[k] = c
  THEN LowerChars[CHOOSE k \in 1..Len(UpperChars) : UpperChars[k] = c]
  ELSE c

\* str.lower()
Lower(s) == [k \in 1..Len(s) |-> LowerChar(s[k])]

\* str.upper() on one character
UpperChar(c) ==
  IF \E k \in 1..Len(LowerChars) : LowerChars[k] = c
  THEN UpperChars[CHOOSE k \in 1..Len(LowerChars) : LowerChars[k] = c]
  ELSE c

\* str.upper()
Upper(s) == [k \in 1..Len(s) |-> UpperChar(s[k])]

\* str.capitalize() of a lower-case text
Capitalize(s) == IF s = << >> THEN s ELSE << UpperChar(s[1]) >> \o Tail(s)

\* str.strip(): drop the leading and the trailing whitespace
RECURSIVE LStrip(_)
LStrip(s) == IF s # << >> /\ IsSpace(Head(s)) THEN LStrip(Tail(s)) ELSE s

RECURSIVE RStrip(_)
RStrip(s) ==
  IF s # << >> /\ IsSpace(s[Len(s)]) THEN RStrip(SubSeq(s, 1, Len(s) - 1)) ELSE s

Strip(s) == RStrip(LStrip(s))

\* the list `remove` of clean_data
RemoveList ==
  { << "N","o"," ","c","i","t","y" >>,
    << "N","o","t"," ","s","e","t" >>,
    << "[","N","o"," ","P","o","s","t","s","]" >>,
    << "N","/","A" >>,
    << "n","o"," ","c","i","t","y" >>,
    << "n","o","t"," ","s","e","t" >>,
    << "[","n","o"," ","p","o","s","t","s","]" >>,
    << "n","/","a" >>,
    << "[","N","o"," ","P","o","s","t"," ","U","R","L","]" >>,
    << "[","E","r","r","o","r","]" >>,
    << "n","o"," ","s","e","t" >>,
    << "n","o","n","e" >>,
    << "n","u","l","l" >>,
    << "n","o"," ","a","g","e" >>
  }

\* clean_data(value)
clean_data(value) ==
  IF value = EmptyText THEN EmptyText
  ELSE IF Strip(value) \in RemoveList THEN EmptyText ELSE Strip(value)

\* col_letter(idx): 0-based column index to the sheet's column letters
RECURSIVE col_letter_loop(_, _)
col_letter_loop(idx, result) ==
  IF idx > 0
  THEN col_letter_loop((idx - 1) \div 26, << UpperChars[((idx - 1) % 26) + 1] >> \o result)
  ELSE result

col_letter(idx) == col_letter_loop(idx + 1, << >>)

\* ---------------------------------------------------------------- safe_update
\* The remote store's answer to one attempt of an operation.
Answers == { "ok", "quota", "error" }

\* What the store answers to attempt 1, 2, ..., retries of one safe_update call;
\* no attempt follows the one the store accepts.
AnswerSeqs ==
  { a \in [1..Retries -> Answers] :
      \A k \in 1..Retries : a[k] = "ok" => \A j \in k..Retries : a[j] = "ok" }

AllOk == [k \in 1..Retries |-> "ok"]

\* '429' in str(e) or 'quota' in str(e).lower()
IsQuota(answer) == answer = "quota"

\* The loop of safe_update from `attempt` (0-based) on; `slept` are the backoff
\* sleeps made so far.  Gives the call's outcome: whether a result was returned
\* (ok) or None, how many times func was invoked, the backoff sleeps in order
\* and the number of courtesy pauses (time.sleep(SHEET_DELAY)), and whether
\* the call ended by an exception instead of a return.
RECURSIVE safe_update_loop(_, _, _)
safe_update_loop(answers, attempt, slept) ==
  IF attempt >= Retries
  THEN [ok |-> FALSE, calls |-> attempt, sleeps |-> slept, courtesy |-> 0, raised |-> FALSE]
  ELSE IF answers[attempt + 1] = "ok"
  THEN [ok |-> TRUE, calls |-> attempt + 1, sleeps |-> slept, courtesy |-> 1, raised |-> FALSE]
  ELSE IF IsQuota(answers[attempt + 1])
  THEN safe_update_loop(answers, attempt + 1, Append(slept, (attempt + 1) * BackoffUnit))
  ELSE IF attempt = Retries - 1
  THEN [ok |-> FALSE, calls |-> attempt + 1, sleeps |-> slept, courtesy |-> 0, raised |-> FALSE]
  ELSE safe_update_loop(answers, attempt + 1, slept)

\* safe_update with the wait not scaled by the attempt: wait = 5
RECURSIVE safe_update_flat_loop(_, _, _)
safe_update_flat_loop(answers, attempt, slept) ==
  IF attempt >= Retries
  THEN [ok |-> FALSE, calls |-> attempt, sleeps |-> slept, courtesy |-> 0, raised |-> FALSE]
  ELSE IF answers[attempt + 1] = "ok"
  THEN [ok |-> TRUE, calls |-> attempt + 1, sleeps |-> slept, courtesy |-> 1, raised |-> FALSE]
  ELSE IF IsQuota(answers[attempt + 1])
  THEN safe_update_flat_loop(answers, attempt + 1, Append(slept, BackoffUnit))
  ELSE IF attempt = Retries - 1
  THEN [ok |-> FALSE, calls |-> attempt + 1, sleeps |-> slept, courtesy |-> 0, raised |-> FALSE]
  ELSE safe_update_flat_loop(answers, attempt + 1, slept)

safe_update_flat(answers) == safe_update_flat_loop(answers, 0, << >>)

\* safe_update giving up at the first error that is no quota error
RECURSIVE safe_update_hasty_loop(_, _, _)
safe_update_hasty_loop(answers, attempt, slept) ==
  IF attempt >= Retries
  THEN [ok |-> FALSE, calls |-> attempt, sleeps |-> slept, courtesy |-> 0, raised |-> FALSE]
  ELSE IF answers[attempt + 1] = "ok"
  THEN [ok |-> TRUE, calls |-> attempt + 1, sleeps |-> slept, courtesy |-> 1, raised |-> FALSE]
  ELSE IF IsQuota(answers[attempt + 1])
  THEN safe_update_hasty_loop(answers, attempt + 1,
                              Append(slept, (attempt + 1) * BackoffUnit))
  ELSE [ok |-> FALSE, calls |-> attempt + 1, sleeps |-> slept, courtesy |-> 0, raised |-> FALSE]

safe_update_hasty(answers) == safe_update_hasty_loop(answers, 0, << >>)

\* safe_update letting the quota error of the last attempt through
RECURSIVE safe_update_reraise_loop(_, _, _)
safe_update_reraise_loop(answers, attempt, slept) ==
  IF attempt >= Retries
  THEN [ok |-> FALSE, calls |-> attempt, sleeps |-> slept, courtesy |-> 0, raised |-> FALSE]
  ELSE IF answers[attempt + 1] = "ok"
  THEN [ok |-> TRUE, calls |-> attempt + 1, sleeps |-> slept, courtesy |-> 1, raised |-> FALSE]
  ELSE IF IsQuota(answers[attempt + 1]) /\ attempt = Retries - 1
  THEN [ok |-> FALSE, calls |-> attempt + 1, sleeps |-> slept, courtesy |-> 0, raised |-> TRUE]
  ELSE IF IsQuota(answers[attempt + 1])
  THEN safe_update_reraise_loop(answers, attempt + 1,
                                Append(slept, (attempt + 1) * BackoffUnit))
  ELSE IF attempt = Retries - 1
  THEN [ok |-> FALSE, calls |-> attempt + 1, sleeps |-> slept, courtesy |-> 0, raised |-> FALSE]
  ELSE safe_update_reraise_loop(answers, attempt + 1, slept)

safe_update_reraise(answers) == safe_update_reraise_loop(answers, 0, << >>)

safe_update(answers) == safe_update_loop(answers, 0, << >>)

\* ------------------------------------------------------------ sample values
NickBob      == << "B","o","b" >>
NickBobLower == << "b","o","b" >>
NickAmy      == << "A","m","y" >>
\* a nickname that passes the filter of get_online_users (three or more
\* characters, not all digits, some letter) and is also an entry of `remove`
NickNone     == << "n","o","n","e" >>

TextOnline  == << "O","n","l","i","n","e" >>
TextPost    == << "P","o","s","t" >>
TextProfile == << "P","r","o","f","i","l","e" >>
TextLhr     == << "L","h","r" >>
TextFav     == << "F","a","v" >>
TextVip     == << "V","i","p" >>
CommaSpace  == << ",", " " >>

\* opaque tokens
Token(t) == << t >>

\* the row written by setup when the Profiles sheet is empty
HeaderRow == [k \in 1..Len(COLUMN_ORDER) |-> Token(COLUMN_ORDER[k])]

OnlineHeader == << Token("Nickname"), Token("Status"), Token("Timestamp") >>

\* `expected` of setup
DashboardHeader ==
  << Token("Run#"), Token("Timestamp"), Token("Profiles"), Token("Success"),
     Token("Failed"), Token("New"), Token("Updated"), Token("Online") >>

\* get_pkt_time().strftime(...) where the value plays no part in a decision
StampNow == Token("now")

\* ------------------------------------------------------- what a scrape yields
\* The fields scrape_profile fills from the page, in the variants of this
\* model: city, last post URL, image URL and the scrape time.
ScrapeVariants ==
  { [city |-> TextLhr,   post |-> Token("post1"), image |-> EmptyText,     time |-> Token("t1")],
    [city |-> TextLhr,   post |-> Token("post2"), image |-> EmptyText,     time |-> Token("t1")],
    [city |-> EmptyText, post |-> EmptyText,      image |-> Token("img1"), time |-> Token("t2")] }

\* url = f"https://damadam.pk/users/{nickname}/"
ProfileUrl(nickname) == << "users/" >> \o nickname

\* the dict `data` that scrape_profile returns for `nickname`
ScrapedData(nickname, v) ==
  [col \in Columns |->
     CASE col = "NICK NAME"      -> nickname
       [] col = "DATETIME SCRAP" -> v.time
       [] col = "PROFILE LINK"   -> ProfileUrl(nickname)
       [] col = "CITY"           -> v.city
       [] col = "LAST POST"      -> clean_data(v.post)
       [] col = "IMAGE"          -> v.image
       [] col = "POSTS"          -> IF v.post = EmptyText THEN Token("0") ELSE Token("3")
       [] col = "STATUS"         -> Token("Verified")
       [] OTHER                  -> EmptyText]

\* ---------------------------------------------------------- the loaded store
\* a row of the Profiles sheet as get_all_values shows it
ProfileRow(nickCell, cityCell, postCell, timeCell, tagsCell) ==
  [k \in 1..Len(COLUMN_ORDER) |->
     CASE COLUMN_ORDER[k] = "NICK NAME"      -> nickCell
       [] COLUMN_ORDER[k] = "CITY"           -> cityCell
       [] COLUMN_ORDER[k] = "LAST POST"      -> postCell
       [] COLUMN_ORDER[k] = "LAST POST TIME" -> EmptyText
       [] COLUMN_ORDER[k] = "TAGS"           -> tagsCell
       [] COLUMN_ORDER[k] = "POSTS"          -> IF postCell = EmptyText THEN Token("0") ELSE Token("3")
       [] COLUMN_ORDER[k] = "STATUS"         -> Token("Verified")
       [] COLUMN_ORDER[k] = "PROFILE LINK"   -> TextProfile
       [] COLUMN_ORDER[k] = "SOURCE"         -> TextOnline
       [] COLUMN_ORDER[k] = "DATETIME SCRAP" -> timeCell
       [] OTHER                              -> EmptyText]

AmyRow == ProfileRow(NickAmy, EmptyText, EmptyText, Token("t0"), EmptyText)
\* Bob's row as an earlier run wrote it, with cells a user has padded since
BobRowPadded ==
  ProfileRow(NickBob \o << " " >>, << " " >> \o TextLhr, TextPost, Token("t1"),
             TextFav \o CommaSpace \o TextVip)

\* the Tags sheet: one label per column, member nicknames below
TagsTable ==
  << << TextFav,  EmptyText,    TextVip \o << " " >> >>,
     << NickBob,  NickAmy,      NickBobLower >>,
     << NickNone, NickBobLower, EmptyText >> >>

\* the cell formulas an earlier run left beside these rows
UsedFormulas ==
  Put(Put(Put(EmptyMap,
    << << "D" >>, 2 >>, [kind |-> "HYPERLINK", url |-> Token("post1"), label |-> TextPost]),
    << << "O" >>, 2 >>, [kind |-> "HYPERLINK", url |-> ProfileUrl(NickBob), label |-> TextProfile]),
    << << "O" >>, 3 >>, [kind |-> "HYPERLINK", url |-> ProfileUrl(NickAmy), label |-> TextProfile])

\* The spreadsheets a run can start from: each names the rows of the Profiles,
\* Online Status and Dashboard sheets and whether a Tags sheet exists.
FreshStore ==
  [profiles |-> << >>, formulas |-> EmptyMap, online |-> << >>, dashboard |-> << >>,
   hasTags |-> FALSE]

UsedStore ==
  [profiles |-> << HeaderRow, BobRowPadded, AmyRow >>,
   formulas |-> UsedFormulas,
   online |-> << OnlineHeader, << NickAmy, TextOnline, Token("t0") >> >>,
   dashboard |-> << DashboardHeader, << 1, Token("t0"), 1, 1, 0, 1, 0, TextOnline >> >>,
   hasTags |-> TRUE]

\* a sheet whose used range is two columns wide, and an older Dashboard layout
NarrowStore ==
  [profiles |-> << << Token("IMAGE"), Token("NICK NAME") >>, << EmptyText, NickBobLower >> >>,
   formulas |-> EmptyMap,
   online |-> << OnlineHeader >>,
   dashboard |-> << << Token("Run"), Token("When") >> >>,
   hasTags |-> FALSE]

InitStores == { FreshStore, UsedStore, NarrowStore }

\* ------------------------------------------------------------------ load_tags
\* the inner loop of load_tags: rows row_idx.. of column col_idx
RECURSIVE load_tags_rows(_, _, _, _)
load_tags_rows(data, col_idx, row_idx, map) ==
  IF row_idx > Len(data) THEN map
  ELSE
    LET tag  == Strip(data[1][col_idx])
        nick == IF col_idx <= Len(data[row_idx]) THEN Strip(data[row_idx][col_idx]) ELSE EmptyText
        next == IF nick = EmptyText THEN map
                ELSE IF Lower(nick) \in DOMAIN map
                THEN Put(map, Lower(nick), map[Lower(nick)] \o CommaSpace \o tag)
                ELSE Put(map, Lower(nick), tag)
    IN load_tags_rows(data, col_idx, row_idx + 1, next)

\* the outer loop of load_tags: header columns col_idx..
RECURSIVE load_tags_cols(_, _, _)
load_tags_cols(data, col_idx, map) ==
  IF col_idx > Len(data[1]) THEN map
  ELSE IF Strip(data[1][col_idx]) = EmptyText
  THEN load_tags_cols(data, col_idx + 1, map)
  ELSE load_tags_cols(data, col_idx + 1, load_tags_rows(data, col_idx, 2, map))

\* load_tags: the tags_map built from the Tags sheet's values
load_tags(data) ==
  IF Len(data) < 2 THEN EmptyMap ELSE load_tags_cols(data, 1, EmptyMap)

\* -------------------------------------------------------------- load_existing
\* the loop of load_existing over the sheet rows idx.. (row 1 is skipped)
RECURSIVE load_existing_loop(_, _, _)
load_existing_loop(rows, idx, map) ==
  IF idx > Len(rows) THEN map
  ELSE
    LET row == rows[idx]
        hit == Len(row) > 1 /\ Lower(Strip(row[2])) # EmptyText
    IN load_existing_loop(rows, idx + 1,
         IF hit THEN Put(map, Lower(Strip(row[2])), [row |-> idx, data |-> row]) ELSE map)

\* load_existing numbering the rows it keeps, the first of them 2
RECURSIVE load_existing_packed_loop(_, _, _, _)
load_existing_packed_loop(rows, idx, kept, map) ==
  IF idx > Len(rows) THEN map
  ELSE
    LET row == rows[idx]
        hit == Len(row) > 1 /\ Lower(Strip(row[2])) # EmptyText
    IN load_existing_packed_loop(rows, idx + 1, IF hit THEN kept + 1 ELSE kept,
         IF hit THEN Put(map, Lower(Strip(row[2])), [row |-> kept + 2, data |-> row]) ELSE map)

load_existing_packed(rows) == load_existing_packed_loop(rows, 2, 0, EmptyMap)

load_existing(rows) == load_existing_loop(rows, 2, EmptyMap)

\* ------------------------------------------------------------- write_profile
\* a projection that keeps the URL of the two link columns
row_values_urls(data) ==
  [k \in 1..Len(COLUMN_ORDER) |->
     IF COLUMN_ORDER[k] = "IMAGE" THEN EmptyText ELSE clean_data(data[COLUMN_ORDER[k]])]

\* the projection of `data` into the column order (row_values)
row_values_of(data) ==
  [k \in 1..Len(COLUMN_ORDER) |->
     LET col == COLUMN_ORDER[k] IN
       IF col = "IMAGE" THEN EmptyText
       ELSE IF col = "PROFILE LINK"
       THEN (IF data[col] # EmptyText THEN TextProfile ELSE EmptyText)
       ELSE IF col = "LAST POST"
       THEN (IF data[col] # EmptyText THEN TextPost ELSE EmptyText)
       ELSE clean_data(data[col])]

\* old_val = old_data[idx] if idx < len(old_data) else ""
old_val(old_data, k) == IF k <= Len(old_data) THEN old_data[k] ELSE EmptyText

\* the comparison without the trimming
differs_raw(old, new) == old # new

\* if str(old_val).strip() != str(new_val).strip()
differs(old, new) == Strip(old) # Strip(new)

\* the loop that fills `changed`, from column k on
RECURSIVE changed_loop(_, _, _, _)
changed_loop(old_data, new_values, k, changed) ==
  IF k > Len(COLUMN_ORDER) THEN changed
  ELSE changed_loop(old_data, new_values, k + 1,
         IF differs(old_val(old_data, k), new_values[k])
         THEN Append(changed, COLUMN_ORDER[k]) ELSE changed)

changed_fields(old_data, new_values) == changed_loop(old_data, new_values, 1, << >>)

\* link_cols of apply_formulas
link_cols == { "IMAGE", "LAST POST", "PROFILE LINK" }

\* the formula apply_formulas writes for col_name
formula_of(col_name, value) ==
  IF col_name = "IMAGE"
  THEN [kind |-> "IMAGE", url |-> value, label |-> EmptyText]
  ELSE IF col_name = "LAST POST"
  THEN [kind |-> "HYPERLINK", url |-> value, label |-> TextPost]
  ELSE [kind |-> "HYPERLINK", url |-> value, label |-> TextProfile]

\* cell = f"{col_letter(col_idx)}{row_idx}"
cell_of(col_name, row_idx) == << col_letter(COLUMN_MAP(col_name)), row_idx >>

\* the cell formulas left after row row_idx was overwritten with plain values
without_row(formulas, row_idx) ==
  [c \in { d \in DOMAIN formulas : d[2] # row_idx } |-> formulas[c]]

\* ------------------------------------------------------------------- state
VARIABLES
  pc,                   \* where main() is
  cause,                \* what ended the try block: "none", "Exception", "KeyboardInterrupt"
  driver,               \* "none" (None), "session" or "quit"
  sheets,               \* TRUE once sheets = SheetsManager() ran
  profiles_sheet,       \* TRUE once the worksheet is bound (else None)
  online_status_sheet,
  dashboard_sheet,
  tags_map,
  existing,             \* cache: nickname_lower -> [row, data]
  Profiles,             \* the Profiles sheet's values, row 1 first
  Formulas,             \* the Profiles sheet's cell formulas: <<letters, row>> -> formula
  OnlineStatus,         \* the Online Status sheet's values
  Dashboard,            \* the Dashboard sheet's values
  store0,               \* the spreadsheet the run started from
  targets, i, success, failed, run_stats,
  attempt,              \* the scrape loop's attempt
  profile,              \* << >> for None, else << data >>
  wp,                   \* the locals of the write_profile call in progress
  result,               \* what write_profile returned
  faults,               \* history: the safe_update calls the store refused an attempt of
  lastSU,               \* history: the safe_update call of the step just taken, if any
  setupOk,              \* history: sheets.setup() returned True
  logged,               \* history: the log_online_status calls, in order
  summaryLog,           \* history: the update_dashboard calls, in order
  wpCalls,              \* history: the write_profile calls that returned, in order
  writeFailed,          \* history: a write to the Profiles sheet returned None
  mutations,            \* history: the remote mutations issued, and how
  interrupted,          \* history: a KeyboardInterrupt was raised during the loop
  tries,                \* history: scrape attempts and browser restarts for this target
  fn                    \* a module-level function applied on its own: its call and result

vars ==
  << pc, cause, driver, sheets, profiles_sheet, online_status_sheet, dashboard_sheet,
     tags_map, existing, Profiles, Formulas, OnlineStatus, Dashboard, store0,
     targets, i, success, failed, run_stats, attempt, profile, wp, result,
     faults, lastSU, setupOk, logged, summaryLog, wpCalls, writeFailed,
     mutations, interrupted, tries, fn >>

managerVars == << sheets, profiles_sheet, online_status_sheet, dashboard_sheet, tags_map >>
storeVars   == << Profiles, Formulas, OnlineStatus, Dashboard >>
loopVars    == << targets, i, success, failed, run_stats, attempt, profile >>
historyVars == << faults, setupOk, logged, summaryLog, wpCalls, writeFailed,
                 mutations, interrupted, tries, fn >>

WpIdle ==
  [data |-> EmptyMap, key |-> EmptyText, row_values |-> << >>, branch |-> "none",
   old_data |-> << >>, changed |-> << >>, row |-> 0, todo |-> {}]

NoResult == [status |-> "none", changed_fields |-> << >>]

NoCall == [func |-> "none", answers |-> << >>, ok |-> FALSE, calls |-> 0,
           sleeps |-> << >>, courtesy |-> 0, raised |-> FALSE]

\* a remote mutation: the gspread method called, and whether safe_update called it
Mutation(func, wrapped) == [func |-> func, wrapped |-> wrapped]

NoTries == [scrapes |-> 0, restarts |-> 0]

\* no function is applied on its own while main() runs
NoFn == [name |-> "none", arg |-> << >>, done |-> FALSE, out |-> << >>]

\* the answers the store may give to the next safe_update call
AnswersNow == IF faults < MaxFaults THEN AnswerSeqs ELSE { AllOk }

Refused(call) == IF call.answers = AllOk THEN 0 ELSE 1

\* the record kept of one safe_update call
CallOf(func, answers) ==
  LET out == safe_update(answers) IN
    [func |-> func, answers |-> answers, ok |-> out.ok,
     calls |-> out.calls, sleeps |-> out.sleeps, courtesy |-> out.courtesy,
     raised |-> out.raised]

Init ==
  /\ pc = "start"
  /\ cause = "none"
  /\ driver = "none"
  /\ sheets = FALSE
  /\ profiles_sheet = FALSE
  /\ online_status_sheet = FALSE
  /\ dashboard_sheet = FALSE
  /\ tags_map = EmptyMap
  /\ existing = EmptyMap
  /\ store0 \in InitStores
  /\ Profiles = store0.profiles
  /\ Formulas = store0.formulas
  /\ OnlineStatus = store0.online
  /\ Dashboard = store0.dashboard
  /\ targets = << >>
  /\ i = 0
  /\ success = 0
  /\ failed = 0
  /\ run_stats = [new |-> 0, updated |-> 0, unchanged |-> 0]
  /\ attempt = 0
  /\ profile = << >>
  /\ wp = WpIdle
  /\ result = NoResult
  /\ faults = 0
  /\ lastSU = NoCall
  /\ setupOk = FALSE
  /\ logged = << >>
  /\ summaryLog = << >>
  /\ wpCalls = << >>
  /\ writeFailed = FALSE
  /\ mutations = {}
  /\ interrupted = FALSE
  /\ tries = NoTries
  /\ fn = NoFn

\* ---------------------------------------------------------------- main: setup
\* driver = setup_browser(); if not driver: raise Exception(...)
SetupBrowser ==
  /\ pc = "start"
  /\ \E ok \in BOOLEAN :
       /\ driver' = IF ok THEN "session" ELSE "none"
       /\ pc' = IF ok THEN "login" ELSE "finally"
       /\ cause' = IF ok THEN "none" ELSE "Exception"
  /\ lastSU' = NoCall
  /\ UNCHANGED << managerVars, existing, storeVars, store0, loopVars, wp, result, historyVars >>

\* if not login(driver): raise Exception(...)
Login ==
  /\ pc = "login"
  /\ \E ok \in BOOLEAN :
       /\ pc' = IF ok THEN "sheets" ELSE "finally"
       /\ cause' = IF ok THEN "none" ELSE "Exception"
  /\ lastSU' = NoCall
  /\ UNCHANGED << driver, managerVars, existing, storeVars, store0, loopVars, wp, result,
                  historyVars >>

\* The remote calls of SheetsManager.setup that can raise, in the order the
\* method makes them; "none" is the run of setup in which none raises.
SetupSteps ==
  << "connect", "profiles", "profiles_header", "online", "online_header",
     "dashboard", "dashboard_clear", "dashboard_header", "none" >>

StepNo(step) == CHOOSE k \in 1..Len(SetupSteps) : SetupSteps[k] = step

\* setup got past `step` when the call that raised comes later
Passed(stop, step) == StepNo(stop) > StepNo(step)

\* setup made the call `step` when it is the one that raised or a later one did
Reached(stop, step) == StepNo(stop) >= StepNo(step)

\* if not dashboard_data or dashboard_data[0] != expected
DashboardStale(rows) == IF rows = << >> THEN TRUE ELSE rows[1] # DashboardHeader

\* The calls of setup that are made at all with these sheets.
StopPossible(stop) ==
  CASE stop = "profiles_header" -> Profiles = << >>
    [] stop = "online_header"   -> OnlineStatus = << >>
    [] stop \in { "dashboard_clear", "dashboard_header" } -> DashboardStale(Dashboard)
    [] OTHER -> TRUE

\* the Profiles sheet after setup's header initialisation
profiles_after_setup(rows) == IF rows = << >> THEN << HeaderRow >> ELSE rows

\* The mutations setup issues against sheets found as `profiles`, `online`
\* and `dashboard`: the header appends and the clear are called on the
\* worksheet directly, the formats through format_sheet and format_profiles.
setup_mutations(stop, profiles, online, dashboard) ==
  LET When(cond, m) == IF cond THEN { m } ELSE {} IN
         When(Reached(stop, "profiles_header") /\ profiles = << >>,
              Mutation("profiles.append_row", FALSE))
    \cup When(Reached(stop, "online_header") /\ online = << >>,
              Mutation("online.append_row", FALSE))
    \cup When(Passed(stop, "online_header") /\ online = << >>,
              Mutation("online.format", TRUE))
    \cup When(Reached(stop, "dashboard_clear") /\ DashboardStale(dashboard),
              Mutation("dashboard.clear", FALSE))
    \cup When(Reached(stop, "dashboard_header") /\ DashboardStale(dashboard),
              Mutation("dashboard.append_row", FALSE))
    \cup When(Passed(stop, "dashboard_header") /\ DashboardStale(dashboard),
              Mutation("dashboard.format", TRUE))
    \cup When(stop = "none", Mutation("profiles.format", TRUE))

\* sheets = SheetsManager(); if not sheets.setup(): raise Exception(...)
\* `stop` is the call of setup that raises; setup returns True when none does.
SheetsSetup ==
  /\ pc = "sheets"
  /\ \E stop \in { SetupSteps[k] : k \in 1..Len(SetupSteps) } :
       /\ StopPossible(stop)
       /\ sheets' = TRUE
       /\ profiles_sheet' = Passed(stop, "profiles")
       /\ Profiles' = IF Passed(stop, "profiles_header")
                      THEN profiles_after_setup(Profiles) ELSE Profiles
       /\ online_status_sheet' = Passed(stop, "online")
       /\ OnlineStatus' = IF Passed(stop, "online_header") /\ OnlineStatus = << >>
                          THEN << OnlineHeader >> ELSE OnlineStatus
       /\ tags_map' = IF Passed(stop, "online_header") /\ store0.hasTags
                      THEN load_tags(TagsTable) ELSE EmptyMap
       /\ dashboard_sheet' = Passed(stop, "dashboard")
       /\ Dashboard' = IF ~DashboardStale(Dashboard) THEN Dashboard
                       ELSE IF Passed(stop, "dashboard_header") THEN << DashboardHeader >>
                       ELSE IF Passed(stop, "dashboard_clear") THEN << >>
                       ELSE Dashboard
       /\ existing' = IF stop = "none" THEN load_existing(Profiles') ELSE EmptyMap
       /\ setupOk' = (stop = "none")
       /\ mutations' = setup_mutations(stop, Profiles, OnlineStatus, Dashboard)
       /\ pc' = IF stop = "none" THEN "online_users" ELSE "finally"
       /\ cause' = IF stop = "none" THEN "none" ELSE "Exception"
  /\ UNCHANGED << driver, Formulas, store0, loopVars, wp, result,
                  faults, logged, summaryLog, wpCalls, writeFailed, tries >>
  /\ lastSU' = NoCall
  /\ UNCHANGED << interrupted, fn >>

\* -------------------------------------------------------- update_dashboard
\* a summary row that carries no counts
SummaryRowZero(profiles, succ, fail, new, updated) ==
  << 1, StampNow, profiles, 0, 0, 0, 0, TextOnline >>

\* row_data of update_dashboard
SummaryRow(profiles, succ, fail, new, updated) ==
  << 1, StampNow, profiles, succ, fail, new, updated, TextOnline >>

\* update_dashboard(metrics): the Dashboard rows after the call.  With no
\* dashboard_sheet the attribute lookup raises inside the try and nothing is sent.
dashboard_after(rows, bound, row, call) ==
  IF bound /\ call.ok THEN Append(rows, row) ELSE rows

\* -------------------------------------------------------- main: discovery
\* The lists get_online_users returns in this model: the first n names, for
\* every n up to MaxTargets, of each of these sequences of online nicknames.
OnlineSequences ==
  { [k \in 1..MaxTargets |-> NickBob],
    [k \in 1..MaxTargets |-> IF k % 2 = 1 THEN NickBob ELSE NickBobLower],
    [k \in 1..MaxTargets |-> IF k % 2 = 1 THEN NickNone ELSE NickBob] }

TargetLists ==
  { SubSeq(seq, 1, n) : seq \in OnlineSequences, n \in 0..MaxTargets }

\* online_nicks = sheets.get_online_users(driver)
GetOnlineUsers ==
  /\ pc = "online_users"
  /\ \E nicks \in TargetLists :
       IF nicks = << >>
       THEN /\ pc' = "no_users"
            /\ UNCHANGED << targets, i >>
       ELSE /\ targets' = nicks
            /\ i' = 1
            /\ pc' = "log"
  /\ lastSU' = NoCall
  /\ UNCHANGED << cause, driver, managerVars, existing, storeVars, store0,
                  success, failed, run_stats, attempt, profile, wp, result, historyVars >>

\* if not online_nicks: ... sheets.update_dashboard(metrics); return
NoUsersDashboard ==
  /\ pc = "no_users"
  /\ \E answers \in AnswersNow :
       LET call == CallOf("dashboard.append_row", answers) IN
         /\ Dashboard' = dashboard_after(Dashboard, dashboard_sheet,
                                         SummaryRow(0, 0, 0, 0, 0), call)
         /\ lastSU' = call
         /\ faults' = faults + Refused(call)
         /\ summaryLog' = Append(summaryLog, call.ok)
  /\ mutations' = mutations \cup { Mutation("dashboard.append_row", TRUE) }
  /\ pc' = "finally"
  /\ UNCHANGED << cause, driver, managerVars, existing, Profiles, Formulas, OnlineStatus,
                  store0, loopVars, wp, result, setupOk, logged, wpCalls,
                  writeFailed, tries >>
  /\ UNCHANGED << interrupted, fn >>

\* -------------------------------------------------------- main: the loop
nickname_now == targets[i]

\* a log that skips a nickname the sheet already shows
online_after_dedup(rows, nickname, call) ==
  IF call.ok /\ ~(\E k \in 1..Len(rows) : rows[k][1] = nickname)
  THEN Append(rows, << nickname, TextOnline, StampNow >>) ELSE rows

\* log_online_status(nickname): the Online Status rows after the call
online_after(rows, nickname, call) ==
  IF call.ok THEN Append(rows, << nickname, TextOnline, StampNow >>) ELSE rows

\* sheets.log_online_status(nickname)
LogOnlineStatus ==
  /\ pc = "log"
  /\ \E answers \in AnswersNow :
       LET call == CallOf("online.append_row", answers) IN
         /\ OnlineStatus' = online_after(OnlineStatus, nickname_now, call)
         /\ lastSU' = call
         /\ faults' = faults + Refused(call)
         /\ logged' = Append(logged, [nick |-> nickname_now, ok |-> call.ok])
  /\ mutations' = mutations \cup { Mutation("online.append_row", TRUE) }
  /\ tries' = NoTries
  /\ attempt' = 0
  /\ profile' = << >>
  /\ pc' = "scrape"
  /\ UNCHANGED << cause, driver, managerVars, existing, Profiles, Formulas, Dashboard, store0,
                  targets, i, success, failed, run_stats, wp, result,
                  setupOk, summaryLog, wpCalls, writeFailed >>
  /\ UNCHANGED << interrupted, fn >>

\* a retry loop that restarts the browser after every failed attempt
after_failed_scrape_always(att) == "restart"

\* if profile is None and attempt == 0: (restart the browser) ... break
after_failed_scrape(att) == IF att = 0 THEN "restart" ELSE "result"

\* profile = scrape_profile(driver, nickname), then the branch on its result.
\* Without a browser session driver.get raises and scrape_profile returns None.
ScrapeProfile ==
  /\ pc = "scrape"
  /\ \/ /\ driver = "session"
        /\ \E v \in ScrapeVariants : profile' = << ScrapedData(nickname_now, v) >>
        /\ pc' = "result"
     \/ /\ profile' = << >>
        /\ pc' = after_failed_scrape(attempt)
  /\ tries' = [tries EXCEPT !.scrapes = @ + 1]
  /\ lastSU' = NoCall
  /\ UNCHANGED << cause, driver, managerVars, existing, storeVars, store0,
                  targets, i, success, failed, run_stats, attempt, wp, result,
                  faults, setupOk, logged, summaryLog, wpCalls, writeFailed, mutations >>
  /\ UNCHANGED << interrupted, fn >>

\* driver = restart_browser(driver); if driver and login(driver): continue; else: break
RestartBrowser ==
  /\ pc = "restart"
  /\ \E up \in BOOLEAN, loggedIn \in BOOLEAN :
       /\ driver' = IF up THEN "session" ELSE "none"
       /\ IF up /\ loggedIn
          THEN /\ attempt' = attempt + 1
               /\ pc' = IF attempt + 1 < ScrapeAttempts THEN "scrape" ELSE "result"
          ELSE attempt' = attempt /\ pc' = "result"
  /\ tries' = [tries EXCEPT !.restarts = @ + 1]
  /\ lastSU' = NoCall
  /\ UNCHANGED << cause, managerVars, existing, storeVars, store0,
                  targets, i, success, failed, run_stats, profile, wp, result,
                  faults, setupOk, logged, summaryLog, wpCalls, writeFailed, mutations >>
  /\ UNCHANGED << interrupted, fn >>

\* an iteration that starts at the scrape, without the log
NextPcNoLog == IF i < Len(targets) THEN "scrape" ELSE "finally"

\* the end of one iteration: the pauses, then the next target or the end of
\* the try block
NextPc == IF i < Len(targets) THEN "log" ELSE "finally"

\* else: failed += 1   (profile is None)
ScrapeFailed ==
  /\ pc = "result"
  /\ profile = << >>
  /\ failed' = failed + 1
  /\ i' = i + 1
  /\ pc' = NextPc
  /\ tries' = NoTries
  /\ lastSU' = NoCall
  /\ UNCHANGED << cause, driver, managerVars, existing, storeVars, store0,
                  targets, success, run_stats, attempt, profile, wp, result,
                  faults, setupOk, logged, summaryLog, wpCalls, writeFailed, mutations >>
  /\ UNCHANGED << interrupted, fn >>

\* the record kept of a write_profile call that returned
WpCall(frame, status, absent) ==
  [key |-> frame.key, data |-> frame.data, row_values |-> frame.row_values,
   status |-> status, absent |-> absent, old_data |-> frame.old_data,
   changed |-> frame.changed, row |-> frame.row, rows |-> Len(Profiles),
   target |-> i]

\* data.get(col, "")
get(data, col) == IF col \in DOMAIN data THEN data[col] ELSE EmptyText

\* the nickname taken as it stands in the record
nickname_raw(data) == get(data, "NICK NAME")

\* nickname = data.get("NICK NAME", "").strip()
nickname_of(data) == Strip(get(data, "NICK NAME"))

\* a cache that takes the projected values of a record found unchanged
cache_refreshed(cache, frame) ==
  Put(cache, frame.key, [row |-> frame.row, data |-> frame.row_values])

\* if not changed: return {"status": "unchanged", ...}: the cache after the return
cache_after_unchanged(cache, frame) == cache

\* data['TAGS'] = self.tags_map.get(nickname.lower(), "")
with_tags(data, nickname, map) ==
  Put(data, "TAGS", IF Lower(nickname) \in DOMAIN map THEN map[Lower(nickname)] ELSE EmptyText)

\* profile['SOURCE'] = 'Online'; result = sheets.write_profile(profile):
\* write_profile up to its first remote call
WriteProfileBegin ==
  /\ pc = "result"
  /\ profile # << >>
  /\ LET given    == [profile[1] EXCEPT !["SOURCE"] = TextOnline]
         nickname == nickname_of(given)
         key      == Lower(nickname)
         data     == with_tags(given, nickname, tags_map)
         values   == row_values_of(data)
         frame    == [data |-> data, key |-> key, row_values |-> values,
                      branch |-> "none", old_data |-> << >>, changed |-> << >>,
                      row |-> 0, todo |-> {}]
         refused  == [data |-> given, key |-> key, row_values |-> << >>,
                      branch |-> "none", old_data |-> << >>, changed |-> << >>,
                      row |-> 0, todo |-> {}]
     IN
       IF nickname = EmptyText
       THEN /\ result' = [status |-> "error", changed_fields |-> << >>]
            /\ wp' = WpIdle
            /\ wpCalls' = Append(wpCalls, WpCall(refused, "error", key \notin DOMAIN existing))
            /\ existing' = existing
            /\ pc' = "count"
       ELSE IF key \in DOMAIN existing
       THEN LET changed == changed_fields(existing[key].data, values)
                found   == [frame EXCEPT !.branch = "existing", !.changed = changed,
                                         !.old_data = existing[key].data,
                                         !.row = existing[key].row]
            IN IF changed = << >>
               THEN /\ result' = [status |-> "unchanged", changed_fields |-> << >>]
                    /\ wp' = WpIdle
                    /\ wpCalls' = Append(wpCalls, WpCall(found, "unchanged", FALSE))
                    /\ existing' = cache_after_unchanged(existing, found)
                    /\ pc' = "count"
               ELSE /\ wp' = found
                    /\ pc' = "wp_update"
                    /\ UNCHANGED << result, wpCalls, existing >>
       ELSE /\ wp' = [frame EXCEPT !.branch = "new"]
            /\ pc' = "wp_append"
            /\ UNCHANGED << result, wpCalls, existing >>
  /\ UNCHANGED << cause, driver, managerVars, storeVars, store0, loopVars,
                  faults, setupOk, logged, summaryLog, writeFailed, mutations, tries >>
  /\ lastSU' = NoCall
  /\ UNCHANGED << interrupted, fn >>

\* a formula pass that writes every link column, populated or not
formula_todo_all(data) == link_cols

\* the populated link columns that apply_formulas writes
formula_todo(data) == { col \in link_cols : data[col] # EmptyText }

\* self.safe_update(self.profiles_sheet.update, values=[row_values], range_name=...)
WriteUpdate ==
  /\ pc = "wp_update"
  /\ \E answers \in AnswersNow :
       LET call == CallOf("profiles.update_row", answers) IN
         /\ Profiles' = IF call.ok /\ wp.row \in 1..Len(Profiles)
                        THEN [Profiles EXCEPT ![wp.row] = wp.row_values]
                        ELSE Profiles
         /\ Formulas' = IF call.ok THEN without_row(Formulas, wp.row) ELSE Formulas
         /\ lastSU' = call
         /\ faults' = faults + Refused(call)
         /\ writeFailed' = (writeFailed \/ ~call.ok)
  /\ mutations' = mutations \cup { Mutation("profiles.update", TRUE) }
  /\ wp' = [wp EXCEPT !.todo = formula_todo(wp.data)]
  /\ pc' = "wp_formulas"
  /\ UNCHANGED << cause, driver, managerVars, existing, OnlineStatus, Dashboard, store0,
                  loopVars, result, setupOk, logged, summaryLog, wpCalls, tries >>
  /\ UNCHANGED << interrupted, fn >>

\* an append that the store applies on every attempt made
profiles_after_append_each(rows, row_values, call) ==
  rows \o [k \in 1..(IF call.ok THEN call.calls ELSE 0) |-> row_values]

\* the Profiles rows after safe_update(append_row, row_values): the row is
\* added by the attempt that succeeds, and by no attempt that raised
profiles_after_append(rows, row_values, call) ==
  IF call.ok THEN Append(rows, row_values) ELSE rows

\* self.safe_update(self.profiles_sheet.append_row, row_values)
WriteAppend ==
  /\ pc = "wp_append"
  /\ \E answers \in AnswersNow :
       LET call == CallOf("profiles.append_row", answers) IN
         /\ Profiles' = profiles_after_append(Profiles, wp.row_values, call)
         /\ lastSU' = call
         /\ faults' = faults + Refused(call)
         /\ writeFailed' = (writeFailed \/ ~call.ok)
  /\ mutations' = mutations \cup { Mutation("profiles.append_row", TRUE) }
  /\ pc' = "wp_count"
  /\ UNCHANGED << cause, driver, managerVars, existing, Formulas, OnlineStatus, Dashboard,
                  store0, loopVars, wp, result, setupOk, logged, summaryLog,
                  wpCalls, tries >>
  /\ UNCHANGED << interrupted, fn >>

\* the position guessed as one past the rows read
new_row_guess(rows) == Len(rows) + 1

\* new_row = len(self.profiles_sheet.get_all_values())
new_row_of(rows) == Len(rows)

\* An exception leaves the loop: the frame of write_profile is unwound, and the
\* locals of main that the except and finally clauses never read are dropped.
Unwind ==
  /\ wp' = WpIdle
  /\ profile' = << >>
  /\ attempt' = 0
  /\ result' = NoResult
  /\ tries' = NoTries

\* new_row = len(self.profiles_sheet.get_all_values()): a remote read made
\* outside safe_update and outside any try; when it raises, the exception
\* leaves write_profile and the loop of main
ReadRowCount ==
  /\ pc = "wp_count"
  /\ \/ /\ wp' = [wp EXCEPT !.row = new_row_of(Profiles), !.todo = formula_todo(wp.data)]
        /\ pc' = "wp_formulas"
        /\ UNCHANGED << cause, attempt, profile, result, tries >>
        /\ faults' = faults
     \/ /\ faults < MaxFaults
        /\ faults' = faults + 1
        /\ pc' = "finally"
        /\ cause' = "Exception"
        /\ Unwind
  /\ lastSU' = NoCall
  /\ UNCHANGED << driver, managerVars, existing, storeVars, store0,
                  targets, i, success, failed, run_stats,
                  setupOk, logged, summaryLog, wpCalls, writeFailed, mutations >>
  /\ UNCHANGED << interrupted, fn >>

\* one turn of the loop of apply_formulas; the loop runs over a set of
\* strings, whose order is not fixed
ApplyFormula ==
  /\ pc = "wp_formulas"
  /\ \E col_name \in wp.todo, answers \in AnswersNow :
       LET call == CallOf("profiles.update_cell", answers) IN
         /\ Formulas' = IF call.ok
                        THEN Put(Formulas, cell_of(col_name, wp.row),
                                 formula_of(col_name, wp.data[col_name]))
                        ELSE Formulas
         /\ lastSU' = call
         /\ faults' = faults + Refused(call)
         /\ writeFailed' = (writeFailed \/ ~call.ok)
         /\ wp' = [wp EXCEPT !.todo = wp.todo \ {col_name}]
  /\ mutations' = mutations \cup { Mutation("profiles.update", TRUE) }
  /\ UNCHANGED << pc, cause, driver, managerVars, existing, Profiles, OnlineStatus, Dashboard,
                  store0, loopVars, result, setupOk, logged, summaryLog, wpCalls, tries >>
  /\ UNCHANGED << interrupted, fn >>

\* a cache entry that keeps the position and loses the values
cache_entry_blank(frame) ==
  [row |-> frame.row, data |-> [k \in 1..Len(COLUMN_ORDER) |-> EmptyText]]

\* the cache entry write_profile stores after its writes
cache_entry(frame) == [row |-> frame.row, data |-> frame.row_values]

\* self.existing[nickname_lower] = {...}; return {"status": ..., "changed_fields": ...}
WriteProfileEnd ==
  /\ pc = "wp_formulas"
  /\ wp.todo = {}
  /\ existing' = Put(existing, wp.key, cache_entry(wp))
  /\ result' = IF wp.branch = "existing"
               THEN [status |-> "updated", changed_fields |-> wp.changed]
               ELSE [status |-> "new", changed_fields |-> COLUMN_ORDER]
  /\ wpCalls' = Append(wpCalls, WpCall(wp, IF wp.branch = "existing" THEN "updated" ELSE "new",
                                       wp.branch = "new"))
  /\ wp' = WpIdle
  /\ pc' = "count"
  /\ UNCHANGED << cause, driver, managerVars, storeVars, store0, loopVars,
                  faults, setupOk, logged, summaryLog, writeFailed, mutations, tries >>
  /\ lastSU' = NoCall
  /\ UNCHANGED << interrupted, fn >>

\* a count that keeps run_stats for the statuses the Dashboard shows only
CountShown ==
  /\ pc = "count"
  /\ IF result.status \in { "new", "updated", "unchanged" }
     THEN /\ success' = success + 1
          /\ run_stats' = IF result.status = "unchanged" THEN run_stats
                          ELSE [run_stats EXCEPT ![result.status] = @ + 1]
          /\ failed' = failed
     ELSE /\ failed' = failed + 1
          /\ UNCHANGED << success, run_stats >>
  /\ i' = i + 1
  /\ pc' = IF i < Len(targets) THEN "log" ELSE "finally"
  /\ tries' = [scrapes |-> 0, restarts |-> 0]
  /\ lastSU' = [func |-> "none", answers |-> << >>, ok |-> FALSE, calls |-> 0,
                sleeps |-> << >>, courtesy |-> 0, raised |-> FALSE]
  /\ UNCHANGED << cause, driver, managerVars, existing, storeVars, store0,
                  targets, attempt, profile, wp, result,
                  faults, setupOk, logged, summaryLog, wpCalls, writeFailed, mutations >>
  /\ UNCHANGED << interrupted, fn >>

\* if result.get("status") in {"new", "updated", "unchanged"}: ... else: failed += 1
Count ==
  /\ pc = "count"
  /\ IF result.status \in { "new", "updated", "unchanged" }
     THEN /\ success' = success + 1
          /\ run_stats' = [run_stats EXCEPT ![result.status] = @ + 1]
          /\ failed' = failed
     ELSE /\ failed' = failed + 1
          /\ UNCHANGED << success, run_stats >>
  /\ i' = i + 1
  /\ pc' = NextPc
  /\ tries' = NoTries
  /\ lastSU' = NoCall
  /\ UNCHANGED << cause, driver, managerVars, existing, storeVars, store0,
                  targets, attempt, profile, wp, result,
                  faults, setupOk, logged, summaryLog, wpCalls, writeFailed, mutations >>
  /\ UNCHANGED << interrupted, fn >>

\* the positions of main inside the for loop
LoopPcs ==
  { "log", "scrape", "restart", "result", "wp_update", "wp_append", "wp_count",
    "wp_formulas", "count" }

\* except KeyboardInterrupt: a process-level interrupt during the loop
Interrupt ==
  /\ pc \in LoopPcs
  /\ faults < MaxFaults
  /\ faults' = faults + 1
  /\ interrupted' = TRUE
  /\ UNCHANGED fn
  /\ pc' = "finally"
  /\ cause' = "KeyboardInterrupt"
  /\ Unwind
  /\ lastSU' = NoCall
  /\ UNCHANGED << driver, managerVars, existing, storeVars, store0,
                  targets, i, success, failed, run_stats,
                  setupOk, logged, summaryLog, wpCalls, writeFailed, mutations >>

\* The positions of the loop at which main is inside a try block with a bare
\* `except:` clause for part of the time: the field parsers of scrape_profile,
\* driver.quit() in restart_browser, the cookie loading of login.
BareExceptPcs == { "scrape", "restart" }

\* a KeyboardInterrupt raised inside such a block: the bare except clause
\* catches it, the guarded statement is abandoned and the call goes on
InterruptSwallowed ==
  /\ pc \in BareExceptPcs
  /\ faults < MaxFaults
  /\ faults' = faults + 1
  /\ interrupted' = TRUE
  /\ UNCHANGED fn
  /\ lastSU' = NoCall
  /\ UNCHANGED << pc, cause, driver, managerVars, existing, storeVars, store0, loopVars,
                  wp, result, setupOk, logged, summaryLog, wpCalls, writeFailed,
                  mutations, tries >>

\* a cleanup that leaves the browser session open
CloseBrowserLeak ==
  /\ pc = "close"
  /\ pc' = "done"
  /\ lastSU' = NoCall
  /\ UNCHANGED << cause, driver, managerVars, existing, storeVars, store0, loopVars, wp,
                  result, historyVars >>

\* finally: if sheets: ... sheets.update_dashboard(metrics)
FinallyDashboard ==
  /\ pc = "finally"
  /\ IF sheets
     THEN \E answers \in AnswersNow :
            LET call == IF dashboard_sheet
                        THEN CallOf("dashboard.append_row", answers) ELSE NoCall
            IN /\ Dashboard' = dashboard_after(Dashboard, dashboard_sheet,
                                 SummaryRow(Len(targets), success, failed,
                                            run_stats["new"], run_stats["updated"]), call)
               /\ lastSU' = call
               /\ faults' = IF dashboard_sheet THEN faults + Refused(call) ELSE faults
               /\ summaryLog' = Append(summaryLog, call.ok)
               /\ mutations' = IF dashboard_sheet
                                THEN mutations \cup { Mutation("dashboard.append_row", TRUE) }
                                ELSE mutations
     ELSE /\ lastSU' = NoCall
          /\ UNCHANGED << Dashboard, faults, summaryLog, mutations >>
  /\ pc' = "close"
  /\ UNCHANGED << cause, driver, managerVars, existing, Profiles, Formulas, OnlineStatus,
                  store0, loopVars, wp, result, setupOk, logged, wpCalls,
                  writeFailed, tries >>
  /\ UNCHANGED << interrupted, fn >>

\* finally: if driver: driver.quit()
CloseBrowser ==
  /\ pc = "close"
  /\ driver' = IF driver = "session" THEN "quit" ELSE driver
  /\ pc' = "done"
  /\ lastSU' = NoCall
  /\ UNCHANGED << cause, managerVars, existing, storeVars, store0, loopVars, wp, result,
                  historyVars >>

Next ==
  \/ SetupBrowser
  \/ Login
  \/ SheetsSetup
  \/ GetOnlineUsers
  \/ NoUsersDashboard
  \/ LogOnlineStatus
  \/ ScrapeProfile
  \/ RestartBrowser
  \/ ScrapeFailed
  \/ WriteProfileBegin
  \/ WriteUpdate
  \/ WriteAppend
  \/ ReadRowCount
  \/ ApplyFormula
  \/ WriteProfileEnd
  \/ Count
  \/ Interrupt
  \/ InterruptSwallowed
  \/ FinallyDashboard
  \/ CloseBrowser

Spec == Init /\ [][Next]_vars

\* ------------------------------------------- write_profile with any record
\* write_profile takes any dict.  The records below are the ones its first
\* lines (743-747) refuse: nickname empty, nickname of spaces only, no
\* nickname at all.  scrape_profile never builds one, so this specification
\* puts a scraper in its place that may.
Blank == << " ", " " >>

MalformedRecords(nickname) ==
  LET whole == ScrapedData(nickname, [city |-> TextLhr, post |-> EmptyText,
                                      image |-> Token("img1"), time |-> Token("t1")])
  IN { [whole EXCEPT !["NICK NAME"] = EmptyText],
       [whole EXCEPT !["NICK NAME"] = Blank],
       [col \in Columns \ { "NICK NAME" } |-> whole[col]] }

\* profile = <a record without a usable nickname>
ScrapeMalformed ==
  /\ pc = "scrape"
  /\ driver = "session"
  /\ \E record \in MalformedRecords(nickname_now) : profile' = << record >>
  /\ pc' = "result"
  /\ tries' = [tries EXCEPT !.scrapes = @ + 1]
  /\ lastSU' = NoCall
  /\ UNCHANGED << cause, driver, managerVars, existing, storeVars, store0,
                  targets, i, success, failed, run_stats, attempt, wp, result,
                  faults, setupOk, logged, summaryLog, wpCalls, writeFailed, mutations,
                  interrupted, fn >>

InitRecords == Init /\ store0 = UsedStore

NextRecords == Next \/ ScrapeMalformed

RecordSpec == InitRecords /\ [][NextRecords]_vars

\* The steps main() takes by itself, the first lines of write_profile aside.
ProgramSteps ==
  \/ SetupBrowser
  \/ Login
  \/ SheetsSetup
  \/ GetOnlineUsers
  \/ NoUsersDashboard
  \/ LogOnlineStatus
  \/ ScrapeProfile
  \/ RestartBrowser
  \/ ScrapeFailed
  \/ WriteUpdate
  \/ WriteAppend
  \/ ReadRowCount
  \/ ApplyFormula
  \/ WriteProfileEnd
  \/ Count
  \/ FinallyDashboard
  \/ CloseBrowser

\* main() runs on: it is one sequential thread, every statement it reaches is
\* executed, and every wait in it (sleeps, page-load and element timeouts,
\* the backoff of safe_update) is bounded.  At most one of ProgramSteps is
\* enabled at a time, so weak fairness of their disjunction is weak fairness
\* of each.  WriteProfileBegin is enabled exactly when pc = "result" with a
\* profile and always leaves that position, so its weak fairness is that main
\* is again and again somewhere else.
LiveSpec ==
  /\ Spec
  /\ WF_vars(ProgramSteps)
  /\ []<>~(pc = "result" /\ profile # << >>)

\* ------------------------------------------------------------ convert_date
Digits == << "0", "1", "2", "3", "4", "5", "6", "7", "8", "9" >>

IsDigit(c) == \E k \in 1..Len(Digits) : Digits[k] = c

DigitVal(c) == (CHOOSE k \in 1..Len(Digits) : Digits[k] = c) - 1

\* a character of the class \w
IsWord(c) ==
  \/ IsDigit(c)
  \/ c = "_"
  \/ \E k \in 1..Len(LowerChars) : LowerChars[k] = c \/ UpperChars[k] = c

\* the regular expression's \b before position p of s
Boundary(s, p) ==
  LET before == IF p - 1 \in 1..Len(s) THEN IsWord(s[p - 1]) ELSE FALSE
      after  == IF p \in 1..Len(s) THEN IsWord(s[p]) ELSE FALSE
  IN before # after

\* s has w at position p
StartsWith(s, p, w) ==
  IF p >= 1 /\ p + Len(w) - 1 <= Len(s) THEN SubSeq(s, p, p + Len(w) - 1) = w ELSE FALSE

\* \s* from position p on: the first position that holds no whitespace
RECURSIVE SkipSpaces(_, _)
SkipSpaces(s, p) == IF p <= Len(s) /\ IsSpace(s[p]) THEN SkipSpaces(s, p + 1) ELSE p

\* \d+ or \w+ from position p on: the first position outside the run
RECURSIVE RunEnd(_, _, _)
RunEnd(s, p, digitsOnly) ==
  IF p <= Len(s) /\ (IF digitsOnly THEN IsDigit(s[p]) ELSE IsWord(s[p]))
  THEN RunEnd(s, p + 1, digitsOnly) ELSE p

\* int(match.group(1))
RECURSIVE IntOf(_)
IntOf(digits) ==
  IF digits = << >> THEN 0
  ELSE 10 * IntOf(SubSeq(digits, 1, Len(digits) - 1)) + DigitVal(digits[Len(digits)])

\* abbrev = {r"\bsecs?\b": "seconds", ...}: what re.sub puts for one word
Abbrev(word) ==
  CASE word \in { << "s", "e", "c" >>, << "s", "e", "c", "s" >> } -> << "s", "e", "c", "o", "n", "d", "s" >>
    [] word \in { << "m", "i", "n" >>, << "m", "i", "n", "s" >> } -> << "m", "i", "n", "u", "t", "e", "s" >>
    [] word \in { << "h", "r" >>, << "h", "r", "s" >> } -> << "h", "o", "u", "r", "s" >>
    [] word \in { << "w", "k" >>, << "w", "k", "s" >> } -> << "w", "e", "e", "k", "s" >>
    [] word \in { << "y", "r" >>, << "y", "r", "s" >> } -> << "y", "e", "a", "r", "s" >>
    [] word \in { << "m", "o", "n" >>, << "m", "o", "n", "s" >> } -> << "m", "o", "n", "t", "h", "s" >>
    [] OTHER -> word

\* for pat, repl in abbrev.items(): text = re.sub(pat, repl, text)
\* every pattern is one word between two \b, so each word of the text is
\* looked up once
RECURSIVE Normalize(_, _)
Normalize(s, p) ==
  IF p > Len(s) THEN << >>
  ELSE IF IsWord(s[p])
  THEN LET q == RunEnd(s, p, FALSE) IN Abbrev(SubSeq(s, p, q - 1)) \o Normalize(s, q)
  ELSE << s[p] >> \o Normalize(s, p + 1)

\* (second|minute|hour|day|week|month|year)
Units == { "second", "minute", "hour", "day", "week", "month", "year" }

UnitText(unit) ==
  CASE unit = "second" -> << "s", "e", "c", "o", "n", "d" >>
    [] unit = "minute" -> << "m", "i", "n", "u", "t", "e" >>
    [] unit = "hour"   -> << "h", "o", "u", "r" >>
    [] unit = "day"    -> << "d", "a", "y" >>
    [] unit = "week"   -> << "w", "e", "e", "k" >>
    [] unit = "month"  -> << "m", "o", "n", "t", "h" >>
    [] unit = "year"   -> << "y", "e", "a", "r" >>

TextAgo == << "a", "g", "o" >>

\* <unit>s?\s*ago from position p on: the position after it, or 0
TailEnd(s, p, unit) ==
  LET q  == p + Len(UnitText(unit))
      q2 == IF q <= Len(s) /\ s[q] = "s" THEN q + 1 ELSE q
      q3 == SkipSpaces(s, q2)
  IN IF StartsWith(s, p, UnitText(unit)) /\ StartsWith(s, q3, TextAgo) THEN q3 + 3 ELSE 0

\* re.search(r"\b(a|an)\s+(second|...|year)s?\s*ago\b", text): the matches
\* as << position, unit >>
ArticleMatches(s) ==
  { m \in (1..Len(s)) \X Units :
      /\ Boundary(s, m[1])
      /\ \E article \in { << "a" >>, << "a", "n" >> } :
           LET q == m[1] + Len(article) IN
             /\ StartsWith(s, m[1], article)
             /\ q <= Len(s)
             /\ IsSpace(s[q])
             /\ TailEnd(s, SkipSpaces(s, q), m[2]) # 0
             /\ Boundary(s, TailEnd(s, SkipSpaces(s, q), m[2])) }

\* re.search(r"(\d+)\s*(second|...|year)s?\s*ago", text): the matches as
\* << position, unit >>, the position being the start of a run of digits
NumberMatches(s) ==
  { m \in (1..Len(s)) \X Units :
      /\ IsDigit(s[m[1]])
      /\ (m[1] > 1 => ~IsDigit(s[m[1] - 1]))
      /\ TailEnd(s, SkipSpaces(s, RunEnd(s, m[1], TRUE)), m[2]) # 0 }

\* re.search returns the leftmost match
Leftmost(matches) == CHOOSE m \in matches : \A o \in matches : m[1] <= o[1]

\* ------------------------------------------------ datetime and timedelta
\* a datetime: the proleptic Gregorian ordinal of its day (1 = 0001-01-01)
\* and the seconds since midnight
DaySeconds == 86400

\* timedelta: abs(days) must not exceed 999999999, else OverflowError
TimedeltaMaxDays == 999999999

IsLeap(year) == year % 4 = 0 /\ (year % 100 # 0 \/ year % 400 = 0)

DaysInMonth(year, month) ==
  IF month = 2 THEN (IF IsLeap(year) THEN 29 ELSE 28)
  ELSE IF month \in { 4, 6, 9, 11 } THEN 30 ELSE 31

RECURSIVE DaysBeforeMonth(_, _)
DaysBeforeMonth(year, month) ==
  IF month = 1 THEN 0
  ELSE DaysBeforeMonth(year, month - 1) + DaysInMonth(year, month - 1)

DaysBeforeYear(year) ==
  LET y == year - 1 IN y * 365 + (y \div 4) - (y \div 100) + (y \div 400)

\* date(year, month, day).toordinal()
Ordinal(year, month, day) == DaysBeforeYear(year) + DaysBeforeMonth(year, month) + day

\* date.fromordinal(n), n >= 1
YearOf(n) ==
  LET n0   == n - 1
      n400 == n0 \div 146097
      r400 == n0 % 146097
      n100 == r400 \div 36524
      r100 == r400 % 36524
      n4   == r100 \div 1461
      r4   == r100 % 1461
      n1   == r4 \div 365
      year == n400 * 400 + n100 * 100 + n4 * 4 + n1 + 1
  IN IF n1 = 4 \/ n100 = 4 THEN year - 1 ELSE year

MonthOf(n) ==
  LET year == YearOf(n)
      rest == n - DaysBeforeYear(year)
  IN CHOOSE month \in 1..12 :
       /\ DaysBeforeMonth(year, month) < rest
       /\ rest <= DaysBeforeMonth(year, month) + DaysInMonth(year, month)

DayOf(n) == n - DaysBeforeYear(YearOf(n)) - DaysBeforeMonth(YearOf(n), MonthOf(n))

MonthAbbr ==
  << << "J", "a", "n" >>, << "F", "e", "b" >>, << "M", "a", "r" >>, << "A", "p", "r" >>, << "M", "a", "y" >>, << "J", "u", "n" >>,
     << "J", "u", "l" >>, << "A", "u", "g" >>, << "S", "e", "p" >>, << "O", "c", "t" >>, << "N", "o", "v" >>, << "D", "e", "c" >> >>

TwoDigits(n) == << Digits[(n \div 10) + 1], Digits[(n % 10) + 1] >>

\* strftime("%d-%b-%y") of the day with ordinal n
strftime(n) ==
  TwoDigits(DayOf(n)) \o << "-" >> \o MonthAbbr[MonthOf(n)] \o << "-" >>
    \o TwoDigits(YearOf(n) % 100)

\* the entry of `deltas` for one unit: its days and seconds
Delta(unit, amount) ==
  CASE unit = "second" -> [days |-> amount \div DaySeconds, seconds |-> amount % DaySeconds]
    [] unit = "minute" -> [days |-> amount \div 1440, seconds |-> (amount % 1440) * 60]
    [] unit = "hour"   -> [days |-> amount \div 24, seconds |-> (amount % 24) * 3600]
    [] unit = "day"    -> [days |-> amount, seconds |-> 0]
    [] unit = "week"   -> [days |-> amount * 7, seconds |-> 0]
    [] unit = "month"  -> [days |-> amount * 30, seconds |-> 0]
    [] unit = "year"   -> [days |-> amount * 365, seconds |-> 0]

\* deltas = {'second': timedelta(seconds=amount), ..., 'year': timedelta(days=amount*365)}
\* builds all seven entries, whatever the unit: it raises when one of them
\* is out of timedelta's range
DeltasRaise(amount) == \E unit \in Units : Delta(unit, amount).days > TimedeltaMaxDays

\* (now - delta): the ordinal of its day; below 1 the subtraction raises
MinusDays(now, delta) ==
  now.ord - delta.days - (IF delta.seconds > now.sod THEN 1 ELSE 0)

\* the lines after the match: the date text, or relative_text when the
\* arithmetic raised (except: return relative_text)
date_after(relative_text, now, amount, unit) ==
  IF DeltasRaise(amount) THEN relative_text
  ELSE IF MinusDays(now, Delta(unit, amount)) < 1 THEN relative_text
  ELSE strftime(MinusDays(now, Delta(unit, amount)))

TextJustNow == << "j", "u", "s", "t", " ", "n", "o", "w" >>
TextNow == << "n", "o", "w" >>
TextYesterday == << "y", "e", "s", "t", "e", "r", "d", "a", "y" >>

\* convert_date(relative_text) when get_pkt_time() returns now
convert_date(relative_text, now) ==
  IF relative_text = EmptyText THEN EmptyText
  ELSE
    LET text == Normalize(Strip(Lower(relative_text)), 1) IN
      IF text \in { TextJustNow, TextNow } THEN strftime(now.ord)
      ELSE IF text = TextYesterday THEN strftime(now.ord - 1)
      ELSE IF ArticleMatches(text) # {}
      THEN date_after(relative_text, now, 1, Leftmost(ArticleMatches(text))[2])
      ELSE IF NumberMatches(text) = {} THEN relative_text
      ELSE LET match == Leftmost(NumberMatches(text)) IN
             date_after(relative_text, now,
                        IntOf(SubSeq(text, match[1], RunEnd(text, match[1], TRUE) - 1)),
                        match[2])

\* --------------------------------------- the module-level functions alone
\* clean_data, convert_date and the loaders of SheetsManager read nothing but
\* their argument.  FunctionSpec applies each of them once to an argument
\* drawn from a bounded set; main() does not run in it.
FnCall(name, arg) == [name |-> name, arg |-> arg, done |-> FALSE, out |-> << >>]

FnReturn(call, out) == [call EXCEPT !.done = TRUE, !.out = out]

\* everything but pc and fn as main() finds it, on a fresh spreadsheet
Idle ==
  /\ cause = "none"
  /\ driver = "none"
  /\ sheets = FALSE
  /\ profiles_sheet = FALSE
  /\ online_status_sheet = FALSE
  /\ dashboard_sheet = FALSE
  /\ tags_map = EmptyMap
  /\ existing = EmptyMap
  /\ store0 = FreshStore
  /\ Profiles = store0.profiles
  /\ Formulas = store0.formulas
  /\ OnlineStatus = store0.online
  /\ Dashboard = store0.dashboard
  /\ targets = << >>
  /\ i = 0
  /\ success = 0
  /\ failed = 0
  /\ run_stats = [new |-> 0, updated |-> 0, unchanged |-> 0]
  /\ attempt = 0
  /\ profile = << >>
  /\ wp = WpIdle
  /\ result = NoResult
  /\ faults = 0
  /\ lastSU = NoCall
  /\ setupOk = FALSE
  /\ logged = << >>
  /\ summaryLog = << >>
  /\ wpCalls = << >>
  /\ writeFailed = FALSE
  /\ mutations = {}
  /\ interrupted = FALSE
  /\ tries = NoTries

idleVars ==
  << cause, driver, managerVars, existing, storeVars, store0, loopVars, wp, result,
     faults, lastSU, setupOk, logged, summaryLog, wpCalls, writeFailed, mutations,
     interrupted, tries >>

\* the placeholders the profile pages show for a field without a value
Placeholders ==
  { << "n", "o", " ", "c", "i", "t", "y" >>,
    << "n", "o", "t", " ", "s", "e", "t" >>,
    << "n", "/", "a" >>,
    << "[", "n", "o", " ", "p", "o", "s", "t", "s", "]" >>,
    << "n", "o", "n", "e" >>,
    << "n", "u", "l", "l" >>,
    << "n", "o", " ", "a", "g", "e" >> }

TextKarachi == << "K", "a", "r", "a", "c", "h", "i" >>

\* a text with and without blanks around it
Padded(s) == { s, << " " >> \o s, s \o << " " >>, << " " >> \o s \o << " " >> }

\* the values clean_data is applied to: the placeholders and the entries of
\* its list in lower case, in upper case and capitalized, a city, an empty
\* value, each with and without blanks around it
CleanInputs ==
  UNION { Padded(v) :
            v \in UNION { { e, Lower(e), Upper(e), Capitalize(Lower(e)) } :
                            e \in Placeholders \cup RemoveList }
                  \cup { TextKarachi, TextLhr, EmptyText } }

\* str(n)
RECURSIVE StrOf(_)
StrOf(n) ==
  IF n < 10 THEN << Digits[n + 1] >> ELSE StrOf(n \div 10) \o << Digits[(n % 10) + 1] >>

\* "a day ago", "an hour ago"
ArticleAgo(article, unit) == article \o << " " >> \o UnitText(unit) \o << " " >> \o TextAgo

\* "1 day ago", "2 months ago"
NumberAgo(amount, unit) ==
  StrOf(amount) \o << " " >> \o UnitText(unit)
    \o (IF amount = 1 THEN << >> ELSE << "s" >>) \o << " " >> \o TextAgo

\* the amounts of the relative dates convert_date is applied to; the largest
\* two lie on either side of the range of timedelta(days=amount*365)
Amounts == { 0, 1, 2, 3, 12, 13, 45, 60, 1800, 1801, 2024, 2100, 2739726, 2739727 }

\* texts that hold none of the forms convert_date looks for
OtherTexts ==
  { << "s", "o", "m", "e", "t", "i", "m", "e" >>,
    << "s", "o", "o", "n" >>,
    << "a", "g", "o" >>,
    << "2", " ", "d", "e", "c", "a", "d", "e", "s", " ", "a", "g", "o" >>,
    << "5", "m", "i", "n", "s", " ", "a", "g", "o" >>,
    << "a", " ", "d", "a", "y", " ", "a", "g", "o", "x" >>,
    << "1", "2", "-", "J", "a", "n", "-", "2", "4" >>,
    << "3", " ", "d", "a", "y", "s" >> }

\* texts that hold one of the forms in an abbreviated, capitalized or
\* embedded way
LooseTexts ==
  { << "5", " ", "m", "i", "n", "s", " ", "a", "g", "o" >>,
    << "2", " ", "h", "r", "s", " ", "a", "g", "o" >>,
    << "3", " ", "w", "k", "s", " ", "a", "g", "o" >>,
    << "1", " ", "y", "r", " ", "a", "g", "o" >>,
    << "2", " ", "m", "o", "n", " ", "a", "g", "o" >>,
    << "1", "0", " ", "s", "e", "c", "s", " ", "a", "g", "o" >>,
    << "Y", "e", "s", "t", "e", "r", "d", "a", "y" >>,
    << " ", "J", "u", "s", "t", " ", "N", "o", "w", " " >>,
    << "a", "b", "o", "u", "t", " ", "2", " ", "d", "a", "y", "s", " ", "a", "g", "o" >>,
    << "1", ".", "5", " ", "h", "o", "u", "r", "s", " ", "a", "g", "o" >>,
    << "2", "d", "a", "y", "s", " ", "a", "g", "o" >>,
    << "a", " ", " ", "w", "e", "e", "k", " ", "a", "g", "o" >> }

DateInputs ==
  { TextJustNow, TextNow, TextYesterday, EmptyText }
    \cup { ArticleAgo(article, unit) : article \in { << "a" >>, << "a", "n" >> }, unit \in Units }
    \cup { NumberAgo(amount, unit) : amount \in Amounts, unit \in Units }
    \cup OtherTexts \cup LooseTexts

\* the values of get_pkt_time(): 2024-06-15 12:00:00, 2024-03-01 00:30:00,
\* 2023-01-01 23:59:59
Nows ==
  { [ord |-> Ordinal(2024, 6, 15), sod |-> 12 * 3600],
    [ord |-> Ordinal(2024, 3, 1), sod |-> 1800],
    [ord |-> Ordinal(2023, 1, 1), sod |-> DaySeconds - 1] }

\* Tags sheets: the one of UsedStore; a header row alone; no row at all; a
\* member listed twice in one column, in two spellings; rows shorter than
\* the header; names and labels with blanks around them
TagsTables ==
  { TagsTable,
    << << TextFav, TextVip >> >>,
    << >>,
    << << TextFav, TextVip >>, << NickBob, NickAmy >>, << NickBobLower, EmptyText >> >>,
    << << TextFav, TextVip >>, << NickBob >>, << NickAmy, NickBob >> >>,
    << << << " " >> \o TextFav, Blank, TextVip >>,
       << NickAmy \o << " " >>, NickBob, << " " >> \o NickAmy >> >> }

\* Profiles sheets: those of the stores; no row; the header alone; a sheet
\* with a one-cell row, an empty row, a row with a blank nickname and two
\* rows for one member in two spellings
ProfileSheets ==
  { UsedStore.profiles, NarrowStore.profiles, << >>, << HeaderRow >>,
    << HeaderRow, BobRowPadded, << EmptyText >>,
       ProfileRow(Blank, TextLhr, EmptyText, Token("t0"), EmptyText),
       AmyRow, << >>,
       ProfileRow(NickBobLower, EmptyText, TextPost, Token("t2"), EmptyText) >>,
    << HeaderRow, << Token("img") >>, AmyRow,
       ProfileRow(<< " " >> \o NickAmy, TextLhr, EmptyText, Token("t1"), EmptyText) >> }

\* records handed to write_profile that carry a TAGS value of their own
TaggedRecords ==
  { [ScrapedData(nickname, v) EXCEPT !["TAGS"] = tags] :
      nickname \in { NickBob, NickBobLower, NickAmy \o << " " >>, NickNone },
      v \in ScrapeVariants,
      tags \in { EmptyText, TextVip } }

\* value = clean_data(value)
CleanData ==
  /\ pc = "call"
  /\ fn.name = "clean_data"
  /\ fn' = FnReturn(fn, clean_data(fn.arg))
  /\ pc' = "return"
  /\ UNCHANGED idleVars

\* convert_date(text)
ConvertDate ==
  /\ pc = "call"
  /\ fn.name = "convert_date"
  /\ fn' = FnReturn(fn, convert_date(fn.arg.text, fn.arg.now))
  /\ pc' = "return"
  /\ UNCHANGED idleVars

\* self.load_tags()
LoadTags ==
  /\ pc = "call"
  /\ fn.name = "load_tags"
  /\ fn' = FnReturn(fn, load_tags(fn.arg))
  /\ pc' = "return"
  /\ UNCHANGED idleVars

\* self.load_existing()
LoadExisting ==
  /\ pc = "call"
  /\ fn.name = "load_existing"
  /\ fn' = FnReturn(fn, load_existing(fn.arg))
  /\ pc' = "return"
  /\ UNCHANGED idleVars

\* write_profile, lines 745-750: the nickname, then the tags
AttachTags ==
  /\ pc = "call"
  /\ fn.name = "write_profile.tags"
  /\ fn' = FnReturn(fn, with_tags(fn.arg.data, nickname_of(fn.arg.data), fn.arg.tags_map))
  /\ pc' = "return"
  /\ UNCHANGED idleVars

InitFunctions ==
  /\ pc = "call"
  /\ \/ \E value \in CleanInputs : fn = FnCall("clean_data", value)
     \/ \E text \in DateInputs, now \in Nows :
          fn = FnCall("convert_date", [text |-> text, now |-> now])
     \/ \E data \in TagsTables : fn = FnCall("load_tags", data)
     \/ \E rows \in ProfileSheets : fn = FnCall("load_existing", rows)
     \/ \E data \in TaggedRecords, table \in TagsTables :
          fn = FnCall("write_profile.tags", [data |-> data, tags_map |-> load_tags(table)])
  /\ Idle

NextFunctions ==
  \/ CleanData
  \/ ConvertDate
  \/ LoadTags
  \/ LoadExisting
  \/ AttachTags

FunctionSpec == InitFunctions /\ [][NextFunctions]_vars

\* ====================================================================
\* Properties
\* ====================================================================
\* the data rows of the Profiles sheet whose nickname case-folds to key
RowsOf(key) ==
  { r \in 2..Len(Profiles) :
      IF Len(Profiles[r]) > 1 THEN Lower(Strip(Profiles[r][2])) = key ELSE FALSE }

\* the write_profile calls so far that were classified new or updated for key
AppliedCalls(key) ==
  { j \in 1..Len(wpCalls) :
      wpCalls[j].key = key /\ wpCalls[j].status \in { "new", "updated" } }

LastApplied(key) == wpCalls[CHOOSE j \in AppliedCalls(key) : \A m \in AppliedCalls(key) : m <= j]

\* the rows of the Dashboard and of the Online Status sheet when setup is done
DashboardBase == IF DashboardStale(store0.dashboard) THEN 1 ELSE Len(store0.dashboard)
OnlineBase == IF store0.online = << >> THEN << OnlineHeader >> ELSE store0.online

\* the number of fully processed targets whose write_profile returned status
CountStatus(status) ==
  Cardinality({ j \in 1..Len(wpCalls) :
                  wpCalls[j].status = status /\ wpCalls[j].target < i })

\* C1: identity uniqueness.  When write_profile has returned and no write to
\* the Profiles sheet has failed, every identifier with a record classified
\* new or updated has exactly one row whose nickname case-folds to it, and
\* that row holds the projected values of the last such record.
C1_IdentityUniqueness ==
  (pc = "count" /\ ~writeFailed) =>
    \A key \in { wpCalls[j].key : j \in 1..Len(wpCalls) } :
      AppliedCalls(key) # {} =>
        /\ Cardinality(RowsOf(key)) = 1
        /\ \A r \in RowsOf(key) : Profiles[r] = LastApplied(key).row_values

\* C2: idempotence.  Two write_profile calls in a row with the same record,
\* the identifier absent from the cache before the first: the first returns
\* new, the second unchanged, and the second adds no row.
C2_Idempotence ==
  \A j \in 2..Len(wpCalls) :
    (wpCalls[j].data = wpCalls[j - 1].data /\ wpCalls[j - 1].absent) =>
      /\ wpCalls[j - 1].status = "new"
      /\ wpCalls[j].status = "unchanged"
      /\ wpCalls[j].rows = wpCalls[j - 1].rows

C2_Witness ==
  /\ Len(wpCalls) = 2
  /\ wpCalls[1].key = NickBobLower
  /\ wpCalls[1].absent
  /\ wpCalls[2].data = wpCalls[1].data
  /\ wpCalls[1].status = "new"
  /\ wpCalls[2].status = "unchanged"

\* C3: run summary exactly once.  At the end of a run whose store setup
\* succeeded and whose summary appends were all accepted, exactly one row has
\* been appended to the Dashboard.
C3_SummaryOnce ==
  (pc = "done" /\ setupOk /\ \A k \in 1..Len(summaryLog) : summaryLog[k]) =>
    Len(Dashboard) = DashboardBase + 1

\* C4: partial progress.  When an exception or an interrupt ends the loop
\* during the iteration of target i and the cleanup path's append is
\* accepted, the one row appended carries Success + Failed = i - 1, the
\* number of targets processed, and the counts of new and updated results.
C4_PartialProgress ==
  (pc = "done" /\ cause # "none" /\ targets # << >> /\ summaryLog = << TRUE >>) =>
    /\ Len(Dashboard) = DashboardBase + 1
    /\ LET row == Dashboard[Len(Dashboard)] IN
         /\ row[4] + row[5] = i - 1
         /\ row[6] = CountStatus("new")
         /\ row[7] = CountStatus("updated")

C4_Witness ==
  /\ pc = "done"
  /\ cause = "Exception"
  /\ Len(targets) = 2
  /\ i = 2
  /\ summaryLog = << TRUE >>
  /\ Dashboard[Len(Dashboard)][4] = 1
  /\ Dashboard[Len(Dashboard)][6] = 1

\* C5: per-identifier failures never escalate.  A run that entered the loop
\* and was not interrupted ends only after every target was processed.
C5_NoEscalation ==
  (pc = "done" /\ targets # << >> /\ cause # "KeyboardInterrupt") =>
    /\ cause = "none"
    /\ i = Len(targets) + 1

\* C6: change detection precision.  When a write_profile call that found a
\* cached entry returns, changed_fields is exactly the set of columns whose new
\* value differs from the cached value after trimming (a missing cached
\* column being empty), and the status is updated iff the set is not empty.
TrimmedDiff(old_data, new_values) ==
  { COLUMN_ORDER[k] : k \in { n \in 1..Len(COLUMN_ORDER) :
      Strip(IF n <= Len(old_data) THEN old_data[n] ELSE << >>) # Strip(new_values[n]) } }

C6_ChangeDetection ==
  (pc = "count" /\ ~wpCalls[Len(wpCalls)].absent) =>
    LET c    == wpCalls[Len(wpCalls)]
        diff == TrimmedDiff(c.old_data, c.row_values)
    IN /\ c.status = result.status
       /\ { result.changed_fields[k] : k \in 1..Len(result.changed_fields) } = diff
       /\ Len(result.changed_fields) = Cardinality(diff)
       /\ result.status = IF diff # {} THEN "updated" ELSE "unchanged"

C6_Witness ==
  /\ pc = "count"
  /\ result.status = "updated"
  /\ LET c == wpCalls[Len(wpCalls)] IN
       /\ c.old_data[2] # c.row_values[2]
       /\ "NICK NAME" \notin { result.changed_fields[k] : k \in 1..Len(result.changed_fields) }
       /\ "CITY" \in { result.changed_fields[k] : k \in 1..Len(result.changed_fields) }

\* C7: stable row position.  A cache entry never changes its position; the
\* row write of a cached identifier goes to the cached position; the Profiles
\* sheet grows during the loop only for an identifier without a cache entry;
\* and the position cached for a new identifier is the row count of the sheet.
C7_StableRow ==
  [][ /\ \A k \in DOMAIN existing :
           k \in DOMAIN existing' /\ existing'[k].row = existing[k].row
      /\ (pc = "wp_update" /\ pc' = "wp_formulas") =>
           /\ wp.key \in DOMAIN existing
           /\ wp'.row = existing[wp.key].row
           /\ Len(Profiles') = Len(Profiles)
      /\ (pc \in LoopPcs /\ Len(Profiles') # Len(Profiles)) =>
           /\ pc = "wp_append"
           /\ wp.key \notin DOMAIN existing
           /\ Len(Profiles') = Len(Profiles) + 1
      /\ (pc \in LoopPcs) =>
           \A k \in (DOMAIN existing') \ (DOMAIN existing) :
             existing'[k].row = Len(Profiles')
    ]_vars

C7_Witness ==
  /\ Len(wpCalls) = 2
  /\ wpCalls[1].status = "new"
  /\ wpCalls[2].status = "updated"
  /\ wpCalls[2].key = wpCalls[1].key
  /\ wpCalls[2].row = wpCalls[1].row
  /\ existing[wpCalls[1].key].row = wpCalls[1].row
  /\ wpCalls[1].row = Len(Profiles)
  /\ wpCalls[1].row # Cardinality(DOMAIN existing) + 1

\* C8: linear backoff.  A safe_update call whose operation fails with a
\* quota signature on attempts 1..k and succeeds on attempt k + 1 sleeps
\* 5, 10, ..., 5k, pauses the courtesy delay once and returns the result.
QuotaThenOk(answers, k) ==
  /\ \A n \in 1..k : answers[n] = "quota"
  /\ answers[k + 1] = "ok"

C8_LinearBackoff ==
  \A k \in 0..(Retries - 1) :
    (lastSU.func # "none" /\ QuotaThenOk(lastSU.answers, k)) =>
      /\ lastSU.ok
      /\ lastSU.calls = k + 1
      /\ lastSU.sleeps = [n \in 1..k |-> 5 * n]
      /\ lastSU.courtesy = 1

C8_Witness ==
  /\ lastSU.func = "profiles.append_row"
  /\ QuotaThenOk(lastSU.answers, 2)
  /\ lastSU.sleeps = << 5, 10 >>
  /\ lastSU.ok

\* C9: non-quota failure.  A safe_update call whose operation fails with a
\* non-quota error on every attempt invokes it `retries` times, sleeps
\* neither for backoff nor for courtesy, and returns None.
C9_NonQuotaFailure ==
  (lastSU.func # "none" /\ \A n \in 1..Retries : lastSU.answers[n] = "error") =>
    /\ ~lastSU.ok
    /\ lastSU.calls = 3
    /\ lastSU.sleeps = << >>
    /\ lastSU.courtesy = 0

C9_Witness ==
  /\ lastSU.func = "profiles.update_row"
  /\ \A n \in 1..Retries : lastSU.answers[n] = "error"
  /\ lastSU.calls = 3
  /\ ~lastSU.ok

\* C10: the event log is append-only.  The Online Status sheet always holds
\* the rows it had after setup followed by one row for each
\* log_online_status call whose append the store accepted, in call order,
\* whatever write_profile returned.
AcceptedLogs == SelectSeq(logged, LAMBDA e : e.ok)

C10_LogAppendOnly ==
  setupOk =>
    OnlineStatus =
      OnlineBase \o [k \in 1..Len(AcceptedLogs) |->
                       << AcceptedLogs[k].nick, TextOnline, StampNow >>]

C10_Witness ==
  /\ Len(logged) = 2
  /\ logged[1].ok /\ logged[2].ok
  /\ logged[1].nick = logged[2].nick
  /\ Len(OnlineStatus) = Len(OnlineBase) + 2
  /\ Len(wpCalls) = 2
  /\ wpCalls[1].status = "unchanged"
  /\ wpCalls[2].status = "updated"

\* C11: one online event per target.  While target i is processed, exactly
\* i log_online_status calls have been made, the k-th for the k-th target and
\* the i-th before the first scrape attempt for target i; a call whose append
\* the store refused does not end the run: a run that no exception ended has
\* logged and counted every target.
C11_OneEventPerTarget ==
  /\ (pc = "log") => Len(logged) = i - 1
  /\ (pc \in LoopPcs \ { "log" }) =>
       /\ Len(logged) = i
       /\ \A k \in 1..i : logged[k].nick = targets[k]
  /\ (tries.scrapes > 0) => Len(logged) = i
  /\ (pc = "done" /\ cause = "none" /\ targets # << >>) =>
       /\ Len(logged) = Len(targets)
       /\ success + failed = Len(targets)

C11_Witness ==
  /\ pc = "done"
  /\ cause = "none"
  /\ Len(targets) = 2
  /\ Len(logged) = 2
  /\ ~logged[1].ok
  /\ success = 1
  /\ failed = 1

\* C12: every remote mutation goes through the retry wrapper.  Every row
\* append, row update, cell update, sheet clear and sheet format issued so
\* far, in setup as in the loop and the summary, was invoked by safe_update.
C12_AllWrapped == \A m \in mutations : m.wrapped

\* C13: fatal setup error.  When browser setup, login or store setup fails,
\* no identifier is logged, scraped or reconciled, the cleanup path attempts
\* the append of one summary row, with zero counts, and the browser session,
\* if one was created, is released.
SetupFailed == cause = "Exception" /\ ~setupOk

C13_FatalSetup ==
  /\ SetupFailed => (logged = << >> /\ wpCalls = << >> /\ targets = << >>)
  /\ (SetupFailed /\ pc = "close") =>
       /\ lastSU.func = "dashboard.append_row"
       /\ Len(summaryLog) = 1
       /\ lastSU.ok => Dashboard[Len(Dashboard)] = SummaryRow(0, 0, 0, 0, 0)
  /\ (SetupFailed /\ pc = "done") => driver # "session"

\* C14: interrupt reaches cleanup.  After a KeyboardInterrupt raised during
\* the main loop the run always comes to its end, and on the way the cleanup
\* path has called update_dashboard once (the row is on the Dashboard when
\* the store accepted it) before it quits the browser session, which is no
\* longer open at the end.
C14_InterruptReachesCleanup ==
  /\ [](interrupted => <>(pc = "done"))
  /\ []((interrupted /\ (pc \in { "close", "done" } \/ driver = "quit")) =>
          /\ Len(summaryLog) = 1
          /\ summaryLog[1] => Len(Dashboard) = DashboardBase + 1)
  /\ []((interrupted /\ pc = "done") => driver # "session")

C14_Witness ==
  /\ pc = "done"
  /\ interrupted
  /\ cause = "KeyboardInterrupt"
  /\ i = 2
  /\ driver = "quit"
  /\ summaryLog = << TRUE >>

\* C15: retries never duplicate an append.  Within one write_profile call
\* the branch (append or row overwrite) is fixed by the cache as it is when
\* the call starts and never changes afterwards; the append position is
\* entered once, from that decision only; the safe_update call made there
\* adds one row or none whatever attempts of it were refused, and no other
\* step of the loop adds a row, so a call adds at most one row.
WpPcs == { "wp_update", "wp_append", "wp_count", "wp_formulas" }

RowsBefore(j) ==
  IF j = 1 THEN Len(profiles_after_setup(store0.profiles)) ELSE wpCalls[j - 1].rows

Malformed(record) ==
  IF "NICK NAME" \in DOMAIN record
  THEN \A k \in 1..Len(record["NICK NAME"]) : record["NICK NAME"][k] = " "
  ELSE TRUE

C16_MalformedRecord ==
  [][ /\ (pc = "result" /\ profile # << >> /\ cause' # "KeyboardInterrupt") =>
           (Malformed(profile[1]) =>
              /\ pc' = "count"
              /\ result'.status = "error"
              /\ lastSU' = NoCall
              /\ mutations' = mutations
              /\ UNCHANGED << existing, Profiles, Formulas, OnlineStatus, Dashboard >>)
      /\ (pc = "count" /\ result.status = "error" /\ cause' # "KeyboardInterrupt") =>
           /\ failed' = failed + 1
           /\ success' = success
           /\ run_stats' = run_stats
           /\ i' = i + 1
           /\ pc' = IF i < Len(targets) THEN "log" ELSE "finally"
           /\ cause' = "none"
    ]_vars

C16_Witness ==
  /\ pc = "scrape"
  /\ i = 2
  /\ failed = 1
  /\ success = 0
  /\ Len(wpCalls) = 1
  /\ wpCalls[1].status = "error"
  /\ "NICK NAME" \in DOMAIN wpCalls[1].data
  /\ wpCalls[1].data["NICK NAME"] = Blank
  /\ existing = load_existing(store0.profiles)

\* C17: unchanged performs no write.  The step in which write_profile
\* returns unchanged makes no safe_update call, issues no mutation, leaves the
\* Profiles rows and the cell formulas as they were, and leaves the cache (the
\* row position and the values of every identifier) as it was.
C17_UnchangedNoWrite ==
  [][ (pc = "result" /\ pc' = "count" /\ result'.status = "unchanged") =>
        /\ lastSU' = NoCall
        /\ mutations' = mutations
        /\ writeFailed' = writeFailed
        /\ UNCHANGED << Profiles, Formulas, existing >>
    ]_vars

C17_Witness ==
  /\ pc = "count"
  /\ result.status = "unchanged"
  /\ LET c == wpCalls[Len(wpCalls)] IN
       /\ c.status = "unchanged"
       /\ c.old_data # c.row_values
       /\ existing[c.key].data = c.old_data
       /\ Profiles[existing[c.key].row] = c.old_data

\* C18: header initialization.  When setup has just succeeded, and so before
\* any profile row is written and with the cache as it was loaded, row 1 of
\* the Profiles sheet is the expected 18-column header, whether the sheet had
\* no row 1 or another one before, and the cache was loaded from the rows
\* below it.
C18_HeaderInitialized ==
  (setupOk /\ pc = "online_users") =>
    /\ Profiles # << >>
    /\ Profiles[1] = HeaderRow
    /\ existing = load_existing(Profiles)

\* C19: formula injection is independent of the row write.  After the row
\* write of a new or updated record the cell writes to make are those of
\* IMAGE, LAST POST and PROFILE LINK whose URL is not empty; each is made
\* once, through safe_update, to the record's row and the column's fixed
\* letter (A, D, O); a cell write, refused or not, leaves the Profiles rows
\* and the cache alone; write_profile returns only when all were made, and
\* the status it returns is that of its branch.
FixedLetter(col_name) ==
  CASE col_name = "IMAGE"        -> << "A" >>
    [] col_name = "LAST POST"    -> << "D" >>
    [] col_name = "PROFILE LINK" -> << "O" >>

Populated(data) ==
  { col \in { "IMAGE", "LAST POST", "PROFILE LINK" } : data[col] # << >> }

C19_FormulaInjection ==
  [][ /\ (pc \in { "wp_update", "wp_count" } /\ pc' = "wp_formulas") =>
           wp'.todo = Populated(wp.data)
      /\ (pc = "wp_formulas" /\ pc' = "wp_formulas") =>
           \E col \in wp.todo :
             /\ wp' = [wp EXCEPT !.todo = wp.todo \ { col }]
             /\ lastSU'.func = "profiles.update_cell"
             /\ Profiles' = Profiles
             /\ existing' = existing
             /\ Formulas' = IF lastSU'.ok
                            THEN Put(Formulas, << FixedLetter(col), wp.row >>,
                                     formula_of(col, wp.data[col]))
                            ELSE Formulas
      /\ (pc = "wp_formulas" /\ pc' = "count") =>
           /\ wp.todo = {}
           /\ result'.status = IF wp.branch = "existing" THEN "updated" ELSE "new"
           /\ Profiles' = Profiles
    ]_vars

C19_Witness ==
  /\ pc = "count"
  /\ result.status = "new"
  /\ writeFailed
  /\ LET c == wpCalls[Len(wpCalls)] IN
       /\ Populated(c.data) = { "LAST POST", "PROFILE LINK" }
       /\ c.row = Len(Profiles)
       /\ Profiles[c.row] = c.row_values
       /\ << << "D" >>, c.row >> \notin DOMAIN Formulas
       /\ << << "O" >>, c.row >> \in DOMAIN Formulas

\* C20: bounded scrape retry.  For each target at most two scrape attempts and
\* at most one browser restart are made; a restart is made only after a failed
\* first attempt; when the restart or the re-login fails, or the second
\* attempt fails, no further attempt is made, the target adds exactly one to
\* failed and nothing to success, and the loop goes on to the next target.
Exhausted == pc = "result" /\ profile = << >>

C20_BoundedScrapeRetry ==
  /\ [](/\ tries.scrapes <= 2
        /\ tries.restarts <= 1
        /\ (pc = "restart" => (tries.scrapes = 1 /\ tries.restarts = 0))
        /\ (Exhausted => (tries.restarts = 1 /\ tries.scrapes \in { 1, 2 })))
  /\ [][ /\ (pc = "restart" /\ pc' \notin { "restart", "scrape", "finally" }) =>
              (Exhausted' /\ tries'.scrapes = 1)
         /\ (pc = "scrape" /\ tries.scrapes = 1 /\ tries'.scrapes = 2
                /\ profile' = << >>) => Exhausted'
         /\ (Exhausted /\ pc' # "result" /\ ~interrupted') =>
              /\ failed' = failed + 1
              /\ success' = success
              /\ i' = i + 1
              /\ pc' = IF i < Len(targets) THEN "log" ELSE "finally"
         /\ failed' # failed => (Exhausted /\ failed' = failed + 1 /\ i' = i + 1)
       ]_vars

C20_Witness ==
  /\ pc = "result"
  /\ profile = << >>
  /\ tries.scrapes = 2
  /\ tries.restarts = 1
  /\ i = 2
  /\ failed = 1
  /\ success = 0

\* C21: placeholder stripping.  clean_data returns the empty text for every
\* value that, trimmed, is a case variant of one of the seven placeholders,
\* and returns every other non-empty value trimmed and otherwise unchanged.
C21_PlaceholderStripping ==
  (fn.name = "clean_data" /\ fn.done) =>
    LET trimmed == Strip(fn.arg) IN
      IF Lower(trimmed) \in Placeholders
      THEN fn.out = EmptyText
      ELSE fn.out = trimmed

\* C22: relative-date conversion.  With D the current date and time,
\* convert_date maps "just now" and "now" to the day of D, "yesterday" to the
\* day before, "a/an <unit> ago" to the day of D minus one unit and
\* "<N> <unit>s ago" to the day of D minus N units, a month being 30 days and
\* a year 365 days, written dd-Mon-yy ("2 months ago" at 2024-06-15 gives
\* 16-Apr-24); a text of none of these forms is returned unchanged.  The
\* conversions are required wherever the day asked for is a day of the
\* calendar (on or after 0001-01-01).
SpanDays(unit) ==
  CASE unit = "day" -> 1 [] unit = "week" -> 7 [] unit = "month" -> 30
    [] unit = "year" -> 365 [] OTHER -> 0

PerDay(unit) ==
  CASE unit = "second" -> 86400 [] unit = "minute" -> 1440 [] unit = "hour" -> 24
    [] OTHER -> 1

\* the day of D minus amount units
DayBefore(D, amount, unit) ==
  IF SpanDays(unit) > 0 THEN D.ord - amount * SpanDays(unit)
  ELSE LET whole == amount \div PerDay(unit)
           part  == (amount % PerDay(unit)) * (86400 \div PerDay(unit))
       IN IF part <= D.sod THEN D.ord - whole ELSE D.ord - whole - 1

Converted(D, amount, unit) ==
  DayBefore(D, amount, unit) >= 1 => fn.out = strftime(DayBefore(D, amount, unit))

C22_RelativeDate ==
  (fn.name = "convert_date" /\ fn.done) =>
    LET text == fn.arg.text
        D    == fn.arg.now
    IN /\ text \in { TextJustNow, TextNow } => fn.out = strftime(D.ord)
       /\ text = TextYesterday => fn.out = strftime(D.ord - 1)
       /\ \A unit \in Units :
            /\ text \in { ArticleAgo(<< "a" >>, unit), ArticleAgo(<< "a", "n" >>, unit) } =>
                 Converted(D, 1, unit)
            /\ \A amount \in Amounts :
                 text = NumberAgo(amount, unit) => Converted(D, amount, unit)
       /\ text \in OtherTexts => fn.out = text
       /\ (text = NumberAgo(2, "month") /\ D.ord = Ordinal(2024, 6, 15)) =>
            fn.out = << "1", "6", "-", "A", "p", "r", "-", "2", "4" >>

\* C23: tag index construction and attachment.  load_tags maps each
\* case-folded member name of the Tags sheet to the labels of the columns with
\* a non-blank header in which the name occurs, joined by ", " in the order
\* of the header, and has no other entry; write_profile sets TAGS to the entry
\* of the case-folded nickname, or to the empty text when there is none,
\* whatever TAGS the record carried.
Labelled(data) == { c \in 1..Len(data[1]) : Strip(data[1][c]) # EmptyText }

OccursIn(data, c, key) ==
  \E r \in 2..Len(data) :
    IF c <= Len(data[r])
    THEN Strip(data[r][c]) # EmptyText /\ Lower(Strip(data[r][c])) = key
    ELSE FALSE

Members(data) ==
  IF Len(data) < 2 THEN {}
  ELSE UNION { { Lower(Strip(data[r][c])) : c \in { k \in Labelled(data) : k <= Len(data[r]) } } :
                 r \in 2..Len(data) }
         \ { EmptyText }

\* the labels of the columns c.. that hold key, joined
RECURSIVE JoinLabels(_, _, _, _)
JoinLabels(data, c, key, joined) ==
  IF c > Len(data[1]) THEN joined
  ELSE IF c \in Labelled(data) /\ OccursIn(data, c, key)
  THEN JoinLabels(data, c + 1, key,
         IF joined = << >> THEN Strip(data[1][c])
         ELSE joined \o << ",", " " >> \o Strip(data[1][c]))
  ELSE JoinLabels(data, c + 1, key, joined)

C23_TagIndex ==
  /\ (fn.name = "load_tags" /\ fn.done) =>
       /\ DOMAIN fn.out = Members(fn.arg)
       /\ \A key \in Members(fn.arg) : fn.out[key] = JoinLabels(fn.arg, 1, key, << >>)
  /\ (fn.name = "write_profile.tags" /\ fn.done) =>
       LET key == Lower(Strip(fn.arg.data["NICK NAME"])) IN
         /\ fn.out["TAGS"] = IF key \in DOMAIN fn.arg.tags_map
                             THEN fn.arg.tags_map[key] ELSE EmptyText
         /\ \A col \in Columns \ { "TAGS" } : fn.out[col] = fn.arg.data[col]

\* C24: cache coherence under write failure.  After every write_profile
\* call, also one whose row update or append was refused on every attempt,
\* the cache entry of each identifier holds the position and the values of
\* the row stored for it in the Profiles sheet.
Coherent(key) ==
  /\ existing[key].row \in 1..Len(Profiles)
  /\ Profiles[existing[key].row] = existing[key].data

C24_CacheCoherence ==
  pc = "count" => \A key \in DOMAIN existing : Coherent(key)

\* C25: bounded retry always returns.  Whatever quota and other errors the
\* attempts of a safe_update call meet, the operation is invoked at least once
\* and at most `retries` times, the call ends by a return and never by an
\* exception, it returns the result of the first attempt that succeeds and
\* None when none does; when the last attempt fails with a quota error it
\* returns None after exactly `retries` invocations.
FirstOk(answers) ==
  IF \E k \in 1..Retries : answers[k] = "ok"
  THEN CHOOSE k \in 1..Retries :
         answers[k] = "ok" /\ \A j \in 1..(k - 1) : answers[j] # "ok"
  ELSE 0

C25_BoundedRetryReturns ==
  lastSU.func # "none" =>
    /\ lastSU.calls \in 1..Retries
    /\ ~lastSU.raised
    /\ lastSU.ok = (FirstOk(lastSU.answers) # 0)
    /\ lastSU.ok => lastSU.calls = FirstOk(lastSU.answers)
    /\ lastSU.answers[Retries] = "quota" => (~lastSU.ok /\ lastSU.calls = Retries)

C25_Witness ==
  /\ lastSU.func = "profiles.update_cell"
  /\ lastSU.answers = << "error", "quota", "quota" >>
  /\ ~lastSU.ok
  /\ lastSU.calls = Retries
  /\ lastSU.sleeps = << 10, 15 >>

\* C26: URL changes behind an unchanged label are not detected.  When the
\* record handed to write_profile differs from the record of the preceding
\* call for the same identifier only in the URL of IMAGE, LAST POST or
\* PROFILE LINK, each of them populated in both or empty in both, the call
\* returns unchanged in one step without a remote call: the Profiles rows and
\* the cell formulas, the one of that URL included, stay as they were.
LastCallFor(key) ==
  LET js == { j \in 1..Len(wpCalls) : wpCalls[j].key = key } IN
    IF js = {} THEN 0 ELSE CHOOSE j \in js : \A o \in js : o <= j

UrlTwin(record, earlier) ==
  /\ \A col \in Columns \ { "IMAGE", "LAST POST", "PROFILE LINK", "TAGS", "SOURCE" } :
       record[col] = earlier[col]
  /\ \A col \in { "IMAGE", "LAST POST", "PROFILE LINK" } :
       (record[col] = << >>) = (earlier[col] = << >>)
  /\ \E col \in { "IMAGE", "LAST POST", "PROFILE LINK" } : record[col] # earlier[col]

C26_UrlChangeUndetected ==
  [][ (/\ pc = "result"
       /\ profile # << >>
       /\ cause' # "KeyboardInterrupt"
       /\ LET j == LastCallFor(Lower(Strip(profile[1]["NICK NAME"]))) IN
            IF j = 0 THEN FALSE
            ELSE wpCalls[j].status # "error" /\ UrlTwin(profile[1], wpCalls[j].data))
      => /\ pc' = "count"
         /\ result'.status = "unchanged"
         /\ lastSU' = NoCall
         /\ Profiles' = Profiles
         /\ Formulas' = Formulas
         /\ existing' = existing
    ]_vars

C26_Witness ==
  /\ pc = "count"
  /\ result.status = "unchanged"
  /\ Len(wpCalls) = 2
  /\ wpCalls[1].status = "new"
  /\ UrlTwin(wpCalls[2].data, wpCalls[1].data)
  /\ wpCalls[1].data["LAST POST"] # wpCalls[2].data["LAST POST"]
  /\ << << "D" >>, wpCalls[1].row >> \in DOMAIN Formulas
  /\ Formulas[<< << "D" >>, wpCalls[1].row >>].url = wpCalls[1].data["LAST POST"]
  /\ Profiles[wpCalls[1].row] = wpCalls[1].row_values

\* C27: cache load positions.  load_existing gives the data row at 0-based
\* index i below the header the position i + 2 (the row's own number in the
\* sheet); a row without a nickname cell or with a blank one gets no entry
\* and does not move the positions of the rows after it; an entry is keyed
\* by the trimmed, case-folded nickname; of several rows with one key the
\* last is kept.
Named(rows) ==
  { r \in 2..Len(rows) : IF Len(rows[r]) > 1 THEN Strip(rows[r][2]) # << >> ELSE FALSE }

KeyOfRow(rows, r) == Lower(Strip(rows[r][2]))

C27_CacheLoadPositions ==
  (fn.name = "load_existing" /\ fn.done) =>
    /\ DOMAIN fn.out = { KeyOfRow(fn.arg, r) : r \in Named(fn.arg) }
    /\ \A r \in Named(fn.arg) :
         LET entry == fn.out[KeyOfRow(fn.arg, r)] IN
           IF \E later \in Named(fn.arg) :
                later > r /\ KeyOfRow(fn.arg, later) = KeyOfRow(fn.arg, r)
           THEN entry.row > r
           ELSE entry.row = r /\ entry.data = fn.arg[r]

C27_Witness ==
  /\ fn.name = "load_existing"
  /\ fn.done
  /\ Len(fn.arg) = 7
  /\ Named(fn.arg) = { 2, 5, 7 }
  /\ fn.out[NickBobLower].row = 7
  /\ fn.out[Lower(NickAmy)].row = 5

\* C28: counter consistency.  At the end of every iteration of the loop
\* success + failed is the number of targets processed so far and
\* new + updated + unchanged is success; the iteration of a target changes
\* exactly one of success and failed, by exactly one, and no other step
\* changes a counter.
Processed == IF i = 0 THEN 0 ELSE i - 1

StatsTotal == run_stats["new"] + run_stats["updated"] + run_stats["unchanged"]

C28_CounterConsistency ==
  /\ [](/\ success + failed = Processed
        /\ StatsTotal = success)
  /\ [][ IF i' = i + 1 /\ i >= 1
         THEN \/ success' = success + 1 /\ failed' = failed
              \/ failed' = failed + 1 /\ success' = success
         ELSE /\ i' = i \/ (i = 0 /\ i' = 1)
              /\ success' = success
              /\ failed' = failed
              /\ run_stats' = run_stats
       ]_vars

C28_Witness ==
  /\ pc = "finally"
  /\ cause = "none"
  /\ i = 3
  /\ failed = 1
  /\ success = 1
  /\ run_stats["new"] = 1

====
